---- MODULE Spec2Model ----
(***************************************************************************)
(* Model of the streaming control plane of casino_platform.                *)
(*                                                                         *)
(* The repository holds three room managers,                               *)
(*   MediasoupServer  (MediasoupServer.js)                                 *)
(*   RoomManager      (RoomManager.js)                                     *)
(*   RoomService      (unnamed/part_003)                                   *)
(* and the HLS supervisors modelled here,                                  *)
(*   HlsConverterService.js, called directly or through RoomManager, and   *)
(*   converter.js (module-level converter).                                *)
(* Each behaviour of a specification runs ONE of them, chosen in Init.     *)
(*                                                                         *)
(* The media engine (mediasoup), the encoder binary and the file system    *)
(* are outside the repository.  The engine is modelled as the capability   *)
(* interface of spec.md section 6: it answers every call the code makes,   *)
(* rejects a call on a closed object, and closes the children of a closed  *)
(* object.  Every `await` of an engine call or of a timer is a suspension  *)
(* point (a separate action); an `await` of an async function that returns *)
(* without I/O continues in the same macrotask and is part of the action.  *)
(***************************************************************************)
EXTENDS Integers, Sequences, FiniteSets, TLC

----------------------------------------------------------------------------
(* Bounds of the model *)

MaxRouters == 2
MaxTransports == 2
MaxProducers == 1
MaxConsumers == 1
MaxPeerObjs == 2
MaxCalls == 2

RoomIds == {"r1"}
PeerIds == {"p1", "p2"}
ProducerCodecs == {"VP8"}
CapabilitySets == {{"VP8"}, {"H264"}}
Impls == {"MediasoupServer", "RoomManager", "RoomService"}
CallIds == 1..MaxCalls
NumWorkers == 2
MaxWorkerIds == 4
MaxCreateFailures == 1

\* adaptive bitrate loop: overlapping timer callbacks, adjustments per run,
\* and the round trip times a stats sample may report (0: no value)
MaxCycles == 2
MaxAdjustments == 8
RttSamples == {0, 40, 100}
CycleIds == 1..MaxCycles

\* HLS supervision of one (room, producer) pair: encoder processes and
\* Conversion records ever made, overlapping start calls
MaxEncoders == 3
MaxConversions == 2
MaxHlsCalls == 2
MaxPlainTransports == 4
HlsCallIds == 1..MaxHlsCalls
\* HlsConverterService called directly, HlsConverterService called through
\* RoomManager.startHlsStream / stopHlsStream, and converter.js
HlsImpls == {"HlsConverterService", "RoomManager", "converter"}

VARIABLES
  impl,             \* which room manager this behaviour runs
  workers,          \* this.workers: sequence of worker handles
  nextWorkerIndex,  \* this.nextWorkerIndex (0-based, as in the code)
  rooms,            \* this.rooms: room id -> room object (0: absent)
  roomObjs,         \* heap of room objects; room object i holds router i
  peerObjs,         \* heap of peer objects
  peers,            \* RoomService this.peers: peer id -> peer object (0: absent)
  producers,        \* MediasoupServer this.producers (set of producer ids)
  consumers,        \* MediasoupServer this.consumers (set of consumer ids)
  engRouters,       \* engine: routers ever created
  engTransports,    \* engine: transports ever created
  engProducers,     \* engine: producers ever created
  engConsumers,     \* engine: consumers ever created
  calls,            \* in-flight and finished async calls
  \* adaptive bitrate loop of one transport (_setupNetworkMonitoring)
  abrTimer,            \* the setInterval timer is armed
  abrClosed,           \* transport.closed
  maxOutgoingBitrate,  \* engine: the transport's max outgoing bitrate
  sinceAdjustment,     \* Date.now() - lastAdjustmentTime, in ms (capped)
  lastStats,           \* lastStats (present = FALSE: null) and its RTT
  stableNetworkCount,  \* stableNetworkCount
  cycles,              \* the timer callbacks in flight
  adjustments,         \* setMaxOutgoingBitrate calls issued so far
  stableRun,           \* history: stable cycles evaluated in a row since a
                       \* congestion or ambiguous cycle or a raise was last
                       \* evaluated or took effect
  \* HLS supervision of one (room, producer) pair
  hls,              \* which supervisor / entry point this behaviour runs
  conversions,      \* this.conversions (converter.js: producers): the
                    \* Conversion stored for the pair (0: none)
  convObjs,         \* heap of Conversion records
  encoders,         \* encoder processes ever spawned
  ffmpegProcesses,  \* converter.js ffmpegProcesses: encoder of the producer
  timers,           \* armed one-shot timers (restart backoff, forced kill)
  plainTransports,  \* side-channel transports allocated on the router
  hlsCalls,         \* in-flight and finished start calls
  pool,             \* worker pool: the implementation that owns it
  poolState,        \* "running", "closed" (close() has run), "exiting" (exit
                    \* timer armed) or "exited"
  deadWorkers,      \* the workers that have died or have been closed
  pendingWorkers,   \* replacements whose createWorker() has not resolved
  createdWorkers,   \* number of workers created so far
  createFailures,   \* number of replacements whose createWorker() rejected
  lastWorker,       \* outcome of the last call of next()
  served,           \* the workers returned since the pool last changed
  localFiles,       \* the .m3u8 / .ts files of the output directory
  pass,             \* the upload pass in progress
  passTimer,        \* the timer of the next upload pass is armed
  failed,           \* the files whose last upload failed
  remote,           \* the objects of the bucket under hls/
  sweep,            \* the expiry sweep in progress
  secondLoop,       \* the upload loop of a Conversion started for the pair
                    \* again: "none", "running" (in a pass) or "armed"
  stopMissed,       \* the last stop found no Conversion and logged so
  sourceClosed,     \* the source producer of the HLS stream has closed
  firstStart,       \* outcome of the first start call finished since the
                    \* last stop
  sockRooms,        \* socket server rooms: room id -> room object (0: absent)
  sockRouters,      \* socket server: number of routers created
  cacheRooms,       \* the room ids that have an entry room:<id> in Redis
  sockCalls,        \* the calls of createRoom(roomId)
  serverUp,         \* the cache server is reachable
  connected,        \* ElastiCacheService this.connected
  reconnecting,     \* this.reconnecting
  reconnectAttempts,\* this.reconnectAttempts
  reconnectTimeout, \* this.reconnectTimeout holds a timer handle
  pendingTimers,    \* number of reconnect timers armed and not yet fired
  timerAttempt,     \* the connect() called by the reconnect timer is waiting
  callerAttempt,    \* a connect() called by get/set/del or at startup is waiting
  clients,          \* number of Redis clients created by connect()
  usedPorts,        \* converter.js usedPorts
  hlsProducers      \* converter.js producers: producer id -> its stream

graphVars == <<impl, workers, nextWorkerIndex, rooms, roomObjs, peerObjs, peers,
               producers, consumers, engRouters, engTransports, engProducers,
               engConsumers, calls>>

abrVars == <<abrTimer, abrClosed, maxOutgoingBitrate, sinceAdjustment,
             lastStats, stableNetworkCount, cycles, adjustments, stableRun>>

hlsVars == <<hls, conversions, convObjs, encoders, ffmpegProcesses, timers,
             plainTransports, hlsCalls, firstStart, sourceClosed,
             stopMissed>>

poolVars == <<pool, poolState, deadWorkers, pendingWorkers, createdWorkers,
              createFailures, lastWorker, served>>

storeVars == <<localFiles, pass, passTimer, failed, remote, sweep, secondLoop>>

cacheVars == <<sockRooms, sockRouters, cacheRooms, sockCalls>>

clientVars == <<serverUp, connected, reconnecting, reconnectAttempts,
                reconnectTimeout, pendingTimers, timerAttempt, callerAttempt,
                clients>>

portVars == <<usedPorts, hlsProducers>>

sideVars == <<cacheVars, clientVars, portVars>>

vars == <<graphVars, abrVars, hlsVars, poolVars, storeVars, sideVars>>

----------------------------------------------------------------------------
(* Helpers *)

NoPeers == [p \in PeerIds |-> 0]

IdleCall == [op |-> "none", pc |-> "idle", room |-> "none", peer |-> "none",
             transport |-> 0, producer |-> 0, caps |-> {}, codec |-> "none",
             peer2 |-> "none", worker |-> 0,
             roomObj |-> 0, peerObj |-> 0, canConsume |-> "none",
             result |-> "none", value |-> 0]

\* Finish call c with a result (an error name or "ok") and a returned value
\* (the locals of the finished call are dropped)
Finish(call, res, val) == [IdleCall EXCEPT !.op = call.op, !.room = call.room,
                                           !.canConsume = call.canConsume,
                                           !.pc = "done", !.result = res,
                                           !.value = val]

\* A settled promise runs its caller's continuation before the event loop
\* takes the next task: no other step happens while a result is undelivered
NoneDone == \A c \in CallIds : calls[c].pc # "done"

\* A new call takes the first free slot of the call table
FreeSlot(c) == /\ NoneDone
               /\ calls[c].pc = "idle"
               /\ \A d \in CallIds : d < c => calls[d].pc # "idle"

\* _getNextWorker: the worker at nextWorkerIndex, then the index advances
GetNextWorker == workers[nextWorkerIndex + 1]

NextIndexAfter == (nextWorkerIndex + 1) % Len(workers)

\* _getPeer(roomId, peerId) of MediasoupServer: 0 when the room or peer is absent
GetPeer(r, p) == IF rooms[r] = 0 THEN 0 ELSE roomObjs[rooms[r]].peers[p]

\* router.canConsume({producerId, rtpCapabilities}) of the engine
CanConsume(pid, caps) ==
  /\ pid \in 1..Len(engProducers)
  /\ ~engProducers[pid].closed
  /\ engProducers[pid].codec \in caps

Pending(pcs) == Cardinality({c \in CallIds : calls[c].pc \in pcs})

----------------------------------------------------------------------------
(* Engine: closing objects.  close() on an object closes its children; the  *)
(* engine emits 'close' on the object closed by the application and         *)
(* 'transportclose' / 'producerclose' on the children it closes itself.     *)

MarkClosed(seq, S) == [i \in 1..Len(seq) |->
                         IF i \in S THEN [seq[i] EXCEPT !.closed = TRUE] ELSE seq[i]]

\* Remove transports T, producers P and consumers K from every peer object
DropFromPeers(po, T, P, K) ==
  [i \in 1..Len(po) |-> [po[i] EXCEPT !.transports = @ \ T,
                                      !.producers = @ \ P,
                                      !.consumers = @ \ K]]

\* Remove transports T, producers P and consumers K from every room object
DropFromRooms(ro, T, P, K) ==
  [i \in 1..Len(ro) |-> [ro[i] EXCEPT !.webRtcTransports = @ \ T,
                                      !.producers = @ \ P,
                                      !.consumers = @ \ K]]

----------------------------------------------------------------------------
(* Room registry and peer / transport / producer / consumer graph *)

NewRoomObj == [peers |-> NoPeers, producers |-> {}, consumers |-> {},
               webRtcTransports |-> {}]

\* caps = {}: no rtpCapabilities stored for the peer yet
\* roomObj: the room object whose peers map received the peer
NewPeerObj(p, r, ro) == [id |-> p, room |-> r, roomObj |-> ro, transports |-> {},
                         producers |-> {}, consumers |-> {}, caps |-> {}]

\* State after the constructor and initialize()/start(): the pool is filled
GraphInit ==
  /\ impl \in Impls
  /\ workers = [i \in 1..NumWorkers |-> i]
  /\ nextWorkerIndex = 0
  /\ rooms = [r \in RoomIds |-> 0]
  /\ roomObjs = <<>>
  /\ peerObjs = <<>>
  /\ peers = [p \in PeerIds |-> 0]
  /\ producers = {}
  /\ consumers = {}
  /\ engRouters = <<>>
  /\ engTransports = <<>>
  /\ engProducers = <<>>
  /\ engConsumers = <<>>
  /\ calls = [c \in CallIds |-> IdleCall]

PendingOp(op) == Cardinality({c \in CallIds : calls[c].op = op
                                /\ calls[c].pc \notin {"idle", "done"}})

\* A createConsumer that goes on to transport.consume() although canConsume
\* reported the capabilities incompatible
ConsumerChecksIgnoringCanConsume(call, room) ==
  IF call.transport \notin room.webRtcTransports
    THEN Finish(call, "TransportNotFound", 0)
  ELSE IF call.producer \notin room.producers
    THEN Finish(call, "ProducerNotFound", 0)
  ELSE [call EXCEPT !.canConsume = IF CanConsume(call.producer, call.caps)
                                     THEN "true" ELSE "false",
                    !.pc = "consume"]

\* RoomManager.createConsumer after `await getOrCreateRoom`: canConsume is
\* checked first, then the transport and the producer are looked up
RmConsumerChecks(call, room) ==
  IF ~CanConsume(call.producer, call.caps)
    THEN Finish([call EXCEPT !.canConsume = "false"], "IncompatibleCapabilities", 0)
  ELSE IF call.transport \notin room.webRtcTransports
    THEN Finish([call EXCEPT !.canConsume = "true"], "TransportNotFound", 0)
  ELSE IF call.producer \notin room.producers
    THEN Finish([call EXCEPT !.canConsume = "true"], "ProducerNotFound", 0)
  ELSE [call EXCEPT !.canConsume = "true", !.pc = "consume"]

\* What a call does once it holds its room object ro (ros: the room heap):
\* the code after `await getOrCreateRoom / getRouter / createRoom`
ContinueWithRoom(c, call, ro, ros) ==
  CASE call.op = "getOrCreate" ->
         /\ calls' = [calls EXCEPT ![c] = Finish(call, "ok", ro)]
         /\ roomObjs' = ros
         /\ UNCHANGED <<peerObjs, peers>>
    [] call.op \in {"createPeer", "createWebRtcTransport"} /\ impl = "RoomService" ->
         \* RoomService.createPeer: reuse room.peers[peerId] or make the peer
         LET existing == ros[ro].peers[call.peer]
             fresh == Len(peerObjs) + 1
             po == IF existing # 0 THEN existing ELSE fresh
             next == [call EXCEPT !.roomObj = ro, !.peerObj = po]
         IN /\ existing = 0 => Len(peerObjs) < MaxPeerObjs
            /\ roomObjs' = IF existing # 0 THEN ros
                           ELSE [ros EXCEPT ![ro].peers[call.peer] = fresh]
            /\ peerObjs' = IF existing # 0 THEN peerObjs
                           ELSE Append(peerObjs, NewPeerObj(call.peer, call.room, ro))
            /\ peers' = IF existing # 0 THEN peers
                        ELSE [peers EXCEPT ![call.peer] = fresh]
            /\ calls' = [calls EXCEPT ![c] =
                           IF call.op = "createPeer" THEN Finish(next, "ok", po)
                           ELSE [next EXCEPT !.pc = "transport"]]
    [] call.op = "createWebRtcTransport" /\ impl # "RoomService" ->
         /\ calls' = [calls EXCEPT ![c] = [call EXCEPT !.roomObj = ro,
                                                       !.pc = "transport"]]
         /\ roomObjs' = ros
         /\ UNCHANGED <<peerObjs, peers>>
    [] call.op = "createProducer" ->
         \* RoomManager.createProducer: room.webRtcTransports.get(transportId)
         /\ calls' = [calls EXCEPT ![c] =
                        IF call.transport \in ros[ro].webRtcTransports
                          THEN [call EXCEPT !.roomObj = ro, !.pc = "produce"]
                          ELSE Finish(call, "TransportNotFound", 0)]
         /\ roomObjs' = ros
         /\ UNCHANGED <<peerObjs, peers>>
    [] call.op = "createConsumer" ->
         /\ calls' = [calls EXCEPT ![c] =
                        RmConsumerChecks([call EXCEPT !.roomObj = ro], ros[ro])]
         /\ roomObjs' = ros
         /\ UNCHANGED <<peerObjs, peers>>

\* The start of every operation that begins with
\*   room = await getOrCreateRoom(roomId)    (RoomManager)
\*   router = await getRouter(roomId)        (MediasoupServer)
\*   room = await createRoom(roomId)         (RoomService)
\* An existing room is returned at once; otherwise the next worker is taken
\* and the call suspends in worker.createRouter().
EnterRoom(c, call) ==
  IF rooms[call.room] # 0
    THEN /\ ContinueWithRoom(c, call, rooms[call.room], roomObjs)
         /\ UNCHANGED <<workers, nextWorkerIndex, rooms>>
    ELSE /\ Len(engRouters) + Pending({"router"}) < MaxRouters
         /\ calls' = [calls EXCEPT ![c] = [call EXCEPT !.pc = "router",
                                                       !.worker = GetNextWorker]]
         /\ nextWorkerIndex' = NextIndexAfter
         /\ UNCHANGED <<workers, rooms, roomObjs, peerObjs, peers>>

\* getOrCreateRoom(roomId) / getRouter(roomId) / createRoom(roomId)
GetOrCreateRoom(c, r) ==
  /\ FreeSlot(c)
  /\ EnterRoom(c, [IdleCall EXCEPT !.op = "getOrCreate", !.room = r])
  /\ UNCHANGED <<impl, producers, consumers, engRouters, engTransports,
                 engProducers, engConsumers>>
  /\ UNCHANGED <<abrVars, hlsVars, poolVars, storeVars, sideVars>>

\* worker.createRouter() resolves: the room object is built and stored under
\* the id, whatever the registry holds by now
RouterCreated(c) ==
  /\ NoneDone
  /\ calls[c].pc = "router"
  /\ Len(engRouters) < MaxRouters
  /\ LET ro == Len(engRouters) + 1
         call == calls[c]
     IN /\ engRouters' = Append(engRouters, [worker |-> call.worker,
                                             room |-> call.room, closed |-> FALSE])
        /\ rooms' = [rooms EXCEPT ![call.room] = ro]
        /\ ContinueWithRoom(c, call, ro, Append(roomObjs, NewRoomObj))
  /\ UNCHANGED <<impl, workers, nextWorkerIndex, producers, consumers,
                 engTransports, engProducers, engConsumers>>
  /\ UNCHANGED <<abrVars, hlsVars, poolVars, storeVars, sideVars>>

\* The caller takes the result of a finished call
Return(c) ==
  /\ calls[c].pc = "done"
  /\ calls' = [calls EXCEPT ![c] = IdleCall]
  /\ UNCHANGED <<impl, workers, nextWorkerIndex, rooms, roomObjs, peerObjs, peers,
                 producers, consumers, engRouters, engTransports, engProducers,
                 engConsumers>>
  /\ UNCHANGED <<abrVars, hlsVars, poolVars, storeVars, sideVars>>

\* createWebRtcTransport(roomId, peerId | userId)
CreateWebRtcTransport(c, r, p) ==
  /\ FreeSlot(c)
  /\ Len(engTransports) + PendingOp("createWebRtcTransport") < MaxTransports
  /\ EnterRoom(c, [IdleCall EXCEPT !.op = "createWebRtcTransport", !.room = r,
                                   !.peer = p])
  /\ UNCHANGED <<impl, producers, consumers, engRouters, engTransports,
                 engProducers, engConsumers>>
  /\ UNCHANGED <<abrVars, hlsVars, poolVars, storeVars, sideVars>>

\* RoomService.createPeer(peerId, roomId)
CreatePeer(c, r, p) ==
  /\ impl = "RoomService"
  /\ FreeSlot(c)
  /\ EnterRoom(c, [IdleCall EXCEPT !.op = "createPeer", !.room = r, !.peer = p])
  /\ UNCHANGED <<impl, producers, consumers, engRouters, engTransports,
                 engProducers, engConsumers>>
  /\ UNCHANGED <<abrVars, hlsVars, poolVars, storeVars, sideVars>>

\* router.createWebRtcTransport() resolves (or rejects on a closed router)
TransportCreated(c) ==
  /\ NoneDone
  /\ calls[c].pc = "transport"
  /\ LET call == calls[c]
         ro == call.roomObj
         t == Len(engTransports) + 1
     IN IF engRouters[ro].closed
          THEN /\ calls' = [calls EXCEPT ![c] = Finish(call, "EngineError", 0)]
               /\ UNCHANGED <<engTransports, roomObjs, peerObjs>>
          ELSE /\ engTransports' = Append(engTransports,
                                          [router |-> ro, closed |-> FALSE])
               /\ CASE impl = "MediasoupServer" ->
                         \* next: await transport.setMaxIncomingBitrate(...)
                         /\ calls' = [calls EXCEPT ![c] =
                                        [call EXCEPT !.pc = "maxIncoming",
                                                     !.transport = t]]
                         /\ UNCHANGED <<roomObjs, peerObjs>>
                    [] impl = "RoomManager" ->
                         /\ roomObjs' = [roomObjs EXCEPT
                                           ![ro].webRtcTransports = @ \cup {t}]
                         /\ calls' = [calls EXCEPT ![c] = Finish(call, "ok", t)]
                         /\ UNCHANGED peerObjs
                    [] impl = "RoomService" ->
                         /\ peerObjs' = [peerObjs EXCEPT
                                           ![call.peerObj].transports = @ \cup {t}]
                         /\ calls' = [calls EXCEPT ![c] = Finish(call, "ok", t)]
                         /\ UNCHANGED roomObjs
  /\ UNCHANGED <<impl, workers, nextWorkerIndex, rooms, peers, producers,
                 consumers, engRouters, engProducers, engConsumers>>
  /\ UNCHANGED <<abrVars, hlsVars, poolVars, storeVars, sideVars>>

\* MediasoupServer.createWebRtcTransport after setMaxIncomingBitrate: the
\* peer is looked up, or created in this.rooms.get(roomId).peers, and the
\* transport is stored in peer.transports
MaxIncomingSet(c) ==
  /\ NoneDone
  /\ calls[c].pc = "maxIncoming"
  /\ LET call == calls[c]
         t == call.transport
         existing == GetPeer(call.room, call.peer)
         fresh == Len(peerObjs) + 1
     IN IF engTransports[t].closed
          THEN /\ calls' = [calls EXCEPT ![c] = Finish(call, "EngineError", 0)]
               /\ UNCHANGED <<roomObjs, peerObjs>>
        ELSE IF existing # 0
          THEN /\ peerObjs' = [peerObjs EXCEPT ![existing].transports = @ \cup {t}]
               /\ calls' = [calls EXCEPT ![c] =
                              Finish([call EXCEPT !.peerObj = existing], "ok", t)]
               /\ UNCHANGED roomObjs
        ELSE IF rooms[call.room] = 0
          \* this.rooms.get(roomId) is undefined: reading .peers throws
          THEN /\ calls' = [calls EXCEPT ![c] = Finish(call, "TypeError", 0)]
               /\ UNCHANGED <<roomObjs, peerObjs>>
        ELSE /\ Len(peerObjs) < MaxPeerObjs
             /\ roomObjs' = [roomObjs EXCEPT
                               ![rooms[call.room]].peers[call.peer] = fresh]
             /\ peerObjs' = Append(peerObjs,
                                   [NewPeerObj(call.peer, call.room, rooms[call.room])
                                      EXCEPT !.transports = {t}])
             /\ calls' = [calls EXCEPT ![c] =
                            Finish([call EXCEPT !.peerObj = fresh], "ok", t)]
  /\ UNCHANGED <<impl, workers, nextWorkerIndex, rooms, peers, producers,
                 consumers, engRouters, engTransports, engProducers, engConsumers>>
  /\ UNCHANGED <<abrVars, hlsVars, poolVars, storeVars, sideVars>>

\* MediasoupServer.setRtpCapabilities(roomId, peerId, rtpCapabilities)
SetRtpCapabilities(r, p, caps) ==
  /\ NoneDone
  /\ impl = "MediasoupServer"
  /\ GetPeer(r, p) # 0
  /\ peerObjs[GetPeer(r, p)].caps # caps
  /\ peerObjs' = [peerObjs EXCEPT ![GetPeer(r, p)].caps = caps]
  /\ UNCHANGED <<impl, workers, nextWorkerIndex, rooms, roomObjs, peers, producers,
                 consumers, engRouters, engTransports, engProducers, engConsumers,
                 calls>>
  /\ UNCHANGED <<abrVars, hlsVars, poolVars, storeVars, sideVars>>

\* createProducer: MediasoupServer (roomId, peerId, transportId, ...),
\* RoomService (peerId, transportId, ...), RoomManager (roomId, transportId, ...)
CreateProducer(c, r, p, t, codec) ==
  /\ FreeSlot(c)
  /\ Len(engProducers) + PendingOp("createProducer") < MaxProducers
  /\ LET call == [IdleCall EXCEPT !.op = "createProducer", !.room = r, !.peer = p,
                                  !.transport = t, !.codec = codec]
         po == IF impl = "MediasoupServer" THEN GetPeer(r, p) ELSE peers[p]
     IN IF impl = "RoomManager"
          THEN EnterRoom(c, call)
          ELSE /\ calls' = [calls EXCEPT ![c] =
                              IF po = 0 THEN Finish(call, "PeerNotFound", 0)
                              ELSE IF t \notin peerObjs[po].transports
                                THEN Finish(call, "TransportNotFound", 0)
                              ELSE [call EXCEPT !.peerObj = po, !.pc = "produce"]]
               /\ UNCHANGED <<workers, nextWorkerIndex, rooms, roomObjs, peerObjs,
                              peers>>
  /\ UNCHANGED <<impl, producers, consumers, engRouters, engTransports,
                 engProducers, engConsumers>>
  /\ UNCHANGED <<abrVars, hlsVars, poolVars, storeVars, sideVars>>

\* transport.produce() resolves (or rejects on a closed transport); the
\* producer is stored in the owner's collections
Produced(c) ==
  /\ NoneDone
  /\ calls[c].pc = "produce"
  /\ LET call == calls[c]
         pid == Len(engProducers) + 1
         po == call.peerObj
     IN IF engTransports[call.transport].closed
          THEN /\ calls' = [calls EXCEPT ![c] = Finish(call, "EngineError", 0)]
               /\ UNCHANGED <<engProducers, roomObjs, peerObjs, producers>>
          ELSE /\ engProducers' = Append(engProducers,
                   [transport |-> call.transport, codec |-> call.codec,
                    closed |-> FALSE])
               /\ CASE impl = "MediasoupServer" ->
                         /\ peerObjs' = [peerObjs EXCEPT ![po].producers = @ \cup {pid}]
                         /\ producers' = producers \cup {pid}
                         /\ calls' = [calls EXCEPT ![c] = Finish(call, "ok", pid)]
                         /\ UNCHANGED roomObjs
                    [] impl = "RoomManager" ->
                         /\ roomObjs' = [roomObjs EXCEPT
                                           ![call.roomObj].producers = @ \cup {pid}]
                         /\ calls' = [calls EXCEPT ![c] = Finish(call, "ok", pid)]
                         /\ UNCHANGED <<peerObjs, producers>>
                    [] impl = "RoomService" ->
                         \* peer.producers.set, then getRoom(peer.roomId).producers.set
                         /\ peerObjs' = [peerObjs EXCEPT ![po].producers = @ \cup {pid}]
                         /\ IF rooms[peerObjs[po].room] = 0
                              THEN /\ calls' = [calls EXCEPT ![c] =
                                                  Finish(call, "TypeError", 0)]
                                   /\ UNCHANGED roomObjs
                              ELSE /\ roomObjs' = [roomObjs EXCEPT
                                         ![rooms[peerObjs[po].room]].producers
                                            = @ \cup {pid}]
                                   /\ calls' = [calls EXCEPT ![c] =
                                                  Finish(call, "ok", pid)]
                         /\ UNCHANGED producers
  /\ UNCHANGED <<impl, workers, nextWorkerIndex, rooms, peers, consumers,
                 engRouters, engTransports, engConsumers>>
  /\ UNCHANGED <<abrVars, hlsVars, poolVars, storeVars, sideVars>>

\* MediasoupServer.createConsumer up to the call of transport.consume()
MsConsumerChecks(call) ==
  LET cp == GetPeer(call.room, call.peer)
      pp == GetPeer(call.room, call.peer2)
  IN IF cp = 0 THEN Finish(call, "PeerNotFound", 0)
     ELSE IF pp = 0 THEN Finish(call, "PeerNotFound", 0)
     ELSE IF call.producer \notin peerObjs[pp].producers
       THEN Finish(call, "ProducerNotFound", 0)
     ELSE IF call.transport \notin peerObjs[cp].transports
       THEN Finish(call, "TransportNotFound", 0)
     ELSE IF peerObjs[cp].caps = {}
       THEN Finish(call, "NoRtpCapabilities", 0)
     ELSE IF ~CanConsume(call.producer, peerObjs[cp].caps)
       THEN Finish([call EXCEPT !.canConsume = "false", !.caps = peerObjs[cp].caps],
                   "IncompatibleCapabilities", 0)
     ELSE [call EXCEPT !.canConsume = "true", !.caps = peerObjs[cp].caps,
                       !.peerObj = cp, !.roomObj = rooms[call.room],
                       !.pc = "consume"]

\* RoomService.createConsumer up to the call of transport.consume()
RsConsumerChecks(call) ==
  LET po == peers[call.peer]
  IN IF po = 0 THEN Finish(call, "PeerNotFound", 0)
     ELSE IF call.transport \notin peerObjs[po].transports
       THEN Finish(call, "TransportNotFound", 0)
     ELSE IF rooms[peerObjs[po].room] = 0
       \* getRoom(peer.roomId) is undefined: reading .producers throws
       THEN Finish(call, "TypeError", 0)
     ELSE IF call.producer \notin roomObjs[rooms[peerObjs[po].room]].producers
       THEN Finish(call, "ProducerNotFound", 0)
     ELSE IF ~CanConsume(call.producer, call.caps)
       THEN Finish([call EXCEPT !.canConsume = "false"],
                   "IncompatibleCapabilities", 0)
     ELSE [call EXCEPT !.canConsume = "true", !.peerObj = po,
                       !.roomObj = rooms[peerObjs[po].room], !.pc = "consume"]

\* createConsumer: p2 is MediasoupServer's producerPeerId; caps is the
\* rtpCapabilities argument of RoomManager and RoomService (MediasoupServer
\* reads consumerPeer.data.rtpCapabilities instead)
CreateConsumer(c, r, p, p2, pid, t, caps) ==
  /\ FreeSlot(c)
  /\ Len(engConsumers) + PendingOp("createConsumer") < MaxConsumers
  /\ LET call == [IdleCall EXCEPT !.op = "createConsumer", !.room = r, !.peer = p,
                                  !.peer2 = p2, !.producer = pid, !.transport = t,
                                  !.caps = caps]
     IN CASE impl = "RoomManager" -> EnterRoom(c, call)
          [] impl = "MediasoupServer" ->
               /\ calls' = [calls EXCEPT ![c] = MsConsumerChecks(call)]
               /\ UNCHANGED <<workers, nextWorkerIndex, rooms, roomObjs, peerObjs,
                              peers>>
          [] impl = "RoomService" ->
               /\ calls' = [calls EXCEPT ![c] = RsConsumerChecks(call)]
               /\ UNCHANGED <<workers, nextWorkerIndex, rooms, roomObjs, peerObjs,
                              peers>>
  /\ UNCHANGED <<impl, producers, consumers, engRouters, engTransports,
                 engProducers, engConsumers>>
  /\ UNCHANGED <<abrVars, hlsVars, poolVars, storeVars, sideVars>>

\* transport.consume() resolves (or rejects when the transport or the
\* producer has closed); the consumer is stored in the owner's collections
Consumed(c) ==
  /\ NoneDone
  /\ calls[c].pc = "consume"
  /\ LET call == calls[c]
         k == Len(engConsumers) + 1
     IN IF engTransports[call.transport].closed \/ engProducers[call.producer].closed
          THEN /\ calls' = [calls EXCEPT ![c] = Finish(call, "EngineError", 0)]
               /\ UNCHANGED <<engConsumers, roomObjs, peerObjs, consumers>>
          ELSE /\ engConsumers' = Append(engConsumers,
                   [transport |-> call.transport, producer |-> call.producer,
                    caps |-> call.caps, closed |-> FALSE])
               /\ calls' = [calls EXCEPT ![c] = Finish(call, "ok", k)]
               /\ CASE impl = "MediasoupServer" ->
                         /\ peerObjs' = [peerObjs EXCEPT
                                           ![call.peerObj].consumers = @ \cup {k}]
                         /\ consumers' = consumers \cup {k}
                         /\ UNCHANGED roomObjs
                    [] impl = "RoomManager" ->
                         /\ roomObjs' = [roomObjs EXCEPT
                                           ![call.roomObj].consumers = @ \cup {k}]
                         /\ UNCHANGED <<peerObjs, consumers>>
                    [] impl = "RoomService" ->
                         /\ peerObjs' = [peerObjs EXCEPT
                                           ![call.peerObj].consumers = @ \cup {k}]
                         /\ roomObjs' = [roomObjs EXCEPT
                                           ![call.roomObj].consumers = @ \cup {k}]
                         /\ UNCHANGED consumers
  /\ UNCHANGED <<impl, workers, nextWorkerIndex, rooms, peers, producers,
                 engRouters, engTransports, engProducers>>
  /\ UNCHANGED <<abrVars, hlsVars, poolVars, storeVars, sideVars>>

----------------------------------------------------------------------------
(* Closing.  g is the object graph while a handler runs: the engine objects *)
(* (R, T, P, K) and the collections of the application (po, ro, gp, gk).    *)

Graph == [R |-> engRouters, T |-> engTransports, P |-> engProducers,
          K |-> engConsumers, po |-> peerObjs, ro |-> roomObjs,
          gp |-> producers, gk |-> consumers]

OpenIn(seq, S) == {i \in S : i \in 1..Len(seq) /\ ~seq[i].closed}

\* transport.on('close'): MediasoupServer and RoomService delete the
\* transport from peer.transports, RoomManager from room.webRtcTransports
OnTransportClose(g, S) ==
  IF impl = "RoomManager"
    THEN [g EXCEPT !.ro = DropFromRooms(@, S, {}, {})]
    ELSE [g EXCEPT !.po = DropFromPeers(@, S, {}, {})]

\* producer.on('close')
OnProducerClose(g, S) ==
  CASE impl = "MediasoupServer" ->
         [g EXCEPT !.po = DropFromPeers(@, {}, S, {}), !.gp = @ \ S]
    [] impl = "RoomManager" -> [g EXCEPT !.ro = DropFromRooms(@, {}, S, {})]
    [] impl = "RoomService" -> [g EXCEPT !.po = DropFromPeers(@, {}, S, {})]

\* producer.on('transportclose'): only RoomService listens
OnProducerTransportClose(g, S) ==
  IF impl = "RoomService" THEN [g EXCEPT !.po = DropFromPeers(@, {}, S, {})]
  ELSE g

\* consumer.on('close'): MediasoupServer has no such listener
OnConsumerClose(g, S) ==
  CASE impl = "MediasoupServer" -> g
    [] impl = "RoomManager" -> [g EXCEPT !.ro = DropFromRooms(@, {}, {}, S)]
    [] impl = "RoomService" -> [g EXCEPT !.po = DropFromPeers(@, {}, {}, S)]

\* consumer.on('transportclose'): MediasoupServer only logs
OnConsumerTransportClose(g, S) ==
  IF impl = "RoomService" THEN [g EXCEPT !.po = DropFromPeers(@, {}, {}, S)]
  ELSE g

\* consumer.on('producerclose')
OnConsumerProducerClose(g, S) ==
  CASE impl = "MediasoupServer" ->
         [g EXCEPT !.po = DropFromPeers(@, {}, {}, S), !.gk = @ \ S]
    [] impl = "RoomManager" -> g
    [] impl = "RoomService" -> [g EXCEPT !.po = DropFromPeers(@, {}, {}, S)]

\* consumer.close() for every consumer of S that is still open
CloseConsumers(g, S) ==
  LET Kx == OpenIn(g.K, S)
  IN OnConsumerClose([g EXCEPT !.K = MarkClosed(@, Kx)], Kx)

\* producer.close() for every producer of S that is still open; the engine
\* closes the consumers of these producers ('producerclose')
CloseProducers(g, S) ==
  LET Px == OpenIn(g.P, S)
      Kp == {k \in 1..Len(g.K) : ~g.K[k].closed /\ g.K[k].producer \in Px}
  IN OnConsumerProducerClose(
       OnProducerClose([g EXCEPT !.P = MarkClosed(@, Px), !.K = MarkClosed(@, Kp)],
                       Px),
       Kp)

\* The engine closes the producers and consumers of the transports Tx
\* ('transportclose') and the consumers of those producers ('producerclose')
CascadeTransports(g, Tx) ==
  LET Pt == {p \in 1..Len(g.P) : ~g.P[p].closed /\ g.P[p].transport \in Tx}
      Kt == {k \in 1..Len(g.K) : ~g.K[k].closed /\ g.K[k].transport \in Tx}
      Kp == {k \in 1..Len(g.K) : ~g.K[k].closed /\ g.K[k].producer \in Pt} \ Kt
  IN OnConsumerProducerClose(
       OnConsumerTransportClose(
         OnProducerTransportClose(
           [g EXCEPT !.T = MarkClosed(@, Tx), !.P = MarkClosed(@, Pt),
                     !.K = MarkClosed(@, Kt \cup Kp)],
           Pt),
         Kt),
       Kp)

\* transport.close() for every transport of S that is still open
CloseTransports(g, S) ==
  LET Tx == OpenIn(g.T, S)
  IN CascadeTransports(OnTransportClose(g, Tx), Tx)

\* router.close(): the engine closes the router's transports ('routerclose',
\* which no implementation listens to) and everything on them
CloseRouter(g, ro) ==
  LET Tx == {t \in 1..Len(g.T) : ~g.T[t].closed /\ g.T[t].router = ro}
  IN CascadeTransports([g EXCEPT !.R[ro].closed = TRUE], Tx)

\* The variables of the graph take the values of g
StoreGraph(g) ==
  /\ engRouters' = g.R
  /\ engTransports' = g.T
  /\ engProducers' = g.P
  /\ engConsumers' = g.K
  /\ peerObjs' = g.po
  /\ roomObjs' = g.ro
  /\ producers' = g.gp
  /\ consumers' = g.gk

RoomPeers(ros, ro) == {p \in PeerIds : ros[ro].peers[p] # 0}

\* MediasoupServer.closePeer(roomId, peerId)
MsClosePeer(r, p) ==
  /\ NoneDone
  /\ impl = "MediasoupServer"
  /\ GetPeer(r, p) # 0
  /\ LET po == GetPeer(r, p)
         ro == rooms[r]
         g1 == CloseTransports(Graph, peerObjs[po].transports)
         g2 == [g1 EXCEPT !.ro[ro].peers[p] = 0]
     IN IF RoomPeers(g2.ro, ro) = {}
          THEN /\ StoreGraph(CloseRouter(g2, ro))
               /\ rooms' = [rooms EXCEPT ![r] = 0]
          ELSE /\ StoreGraph(g2)
               /\ UNCHANGED rooms
  /\ UNCHANGED <<impl, workers, nextWorkerIndex, peers, calls>>
  /\ UNCHANGED <<abrVars, hlsVars, poolVars, storeVars, sideVars>>

\* RoomService.closePeer(peerId, roomId)
RsClosePeer(p, r) ==
  /\ NoneDone
  /\ impl = "RoomService"
  /\ peers[p] # 0
  /\ LET po == peers[p]
         g1 == CloseConsumers(Graph, peerObjs[po].consumers)
         g2 == CloseProducers(g1, g1.po[po].producers)
         g3 == CloseTransports(g2, g2.po[po].transports)
     IN StoreGraph(IF rooms[r] = 0 THEN g3
                   ELSE [g3 EXCEPT !.ro[rooms[r]].peers[p] = 0])
  /\ peers' = [peers EXCEPT ![p] = 0]
  /\ UNCHANGED <<impl, workers, nextWorkerIndex, rooms, calls>>
  /\ UNCHANGED <<abrVars, hlsVars, poolVars, storeVars, sideVars>>

\* RoomManager.closeRoom(roomId); stopHlsStream(roomId) finds no conversion
\* under the key it builds and returns without I/O
RmCloseRoom(r) ==
  /\ NoneDone
  /\ impl = "RoomManager"
  /\ rooms[r] # 0
  /\ LET ro == rooms[r]
         g1 == CloseProducers(Graph, roomObjs[ro].producers)
         g2 == CloseConsumers(g1, g1.ro[ro].consumers)
         g3 == CloseTransports(g2, g2.ro[ro].webRtcTransports)
     IN StoreGraph(CloseRouter(g3, ro))
  /\ rooms' = [rooms EXCEPT ![r] = 0]
  /\ UNCHANGED <<impl, workers, nextWorkerIndex, peers, calls>>
  /\ UNCHANGED <<abrVars, hlsVars, poolVars, storeVars, sideVars>>

\* RoomService.closeRoom(roomId): an unknown id returns at once; otherwise the
\* call keeps the room object and suspends in room.hlsService.stop() and
\* cleanupFiles()
RsCloseRoom(c, r) ==
  /\ impl = "RoomService"
  /\ FreeSlot(c)
  /\ LET call == [IdleCall EXCEPT !.op = "closeRoom", !.room = r]
     IN calls' = [calls EXCEPT ![c] =
                    IF rooms[r] = 0 THEN Finish(call, "ok", 0)
                    ELSE [call EXCEPT !.roomObj = rooms[r], !.pc = "hlsStop"]]
  /\ UNCHANGED <<impl, workers, nextWorkerIndex, rooms, roomObjs, peerObjs, peers,
                 producers, consumers, engRouters, engTransports, engProducers,
                 engConsumers>>
  /\ UNCHANGED <<abrVars, hlsVars, poolVars, storeVars, sideVars>>

\* closePeer(p, r) of RoomService on the graph g
RsClosePeerIn(g, p, r) ==
  IF peers[p] = 0 THEN g
  ELSE LET po == peers[p]
           g1 == CloseConsumers(g, g.po[po].consumers)
           g2 == CloseProducers(g1, g1.po[po].producers)
           g3 == CloseTransports(g2, g2.po[po].transports)
       IN IF rooms[r] = 0 THEN g3 ELSE [g3 EXCEPT !.ro[rooms[r]].peers[p] = 0]

RECURSIVE RsClosePeers(_, _, _)
\* for (const [peerId, peer] of room.peers) this.closePeer(peerId, roomId)
RsClosePeers(g, S, r) ==
  IF S = {} THEN g
  ELSE LET p == CHOOSE x \in S : TRUE
       IN RsClosePeers(RsClosePeerIn(g, p, r), S \ {p}, r)

\* hlsService.stop() and cleanupFiles() have resolved: every peer of the
\* room object kept by the call is closed and the id is unregistered
RsHlsStopped(c) ==
  /\ NoneDone
  /\ calls[c].pc = "hlsStop"
  /\ LET call == calls[c]
         S == RoomPeers(roomObjs, call.roomObj)
     IN /\ StoreGraph(RsClosePeers(Graph, S, call.room))
        /\ peers' = [p \in PeerIds |-> IF p \in S THEN 0 ELSE peers[p]]
        /\ rooms' = [rooms EXCEPT ![call.room] = 0]
        /\ calls' = [calls EXCEPT ![c] = Finish(call, "ok", 0)]
  /\ UNCHANGED <<impl, workers, nextWorkerIndex>>
  /\ UNCHANGED <<abrVars, hlsVars, poolVars, storeVars, sideVars>>

----------------------------------------------------------------------------
(* Adaptive bitrate loop: MediasoupServer._setupNetworkMonitoring           *)

\* config.mediasoup.adaptiveBitrate and config.mediasoup.webRtcTransport
detectionInterval == 2000
minRtt == 50
decreaseFactorPercent == 75
increaseFactorPercent == 115
adjustmentThrottleMs == 5000
stableNetworkThreshold == 5
initialAvailableOutgoingBitrate == 2000000
minimumAvailableOutgoingBitrate == 250000
maximumAvailableOutgoingBitrate == 5000000
\* const sensitivityFactor = 1.2
sensitivityFactorTenths == 12

Max(a, b) == IF a >= b THEN a ELSE b
Min(a, b) == IF a <= b THEN a ELSE b

\* The first multiple of the interval at which the throttle has passed: a
\* longer wait changes nothing
ElapsedCap == ((adjustmentThrottleMs + detectionInterval - 1) \div detectionInterval)
                * detectionInterval

RECURSIVE Pow2Below(_)
\* The largest power of two that is <= n (n >= 1): the binade of n
Pow2Below(n) == IF n < 2 THEN 1 ELSE 2 * Pow2Below(n \div 2)

\* Math.floor(currentBitrate * 0.75): 0.75 is a binary fraction, the product
\* is exact
FloorDecrease(cur) == (cur * decreaseFactorPercent) \div 100

\* Math.floor(currentBitrate * 1.15) in IEEE-754 doubles.  The double nearest
\* to 1.15 is 1.15 - 0.4 * 2^-52, so when cur * 1.15 is an integer n (cur a
\* multiple of 20) the product lies below n, and it rounds to the double below
\* n (floor n - 1) when cur > 1.25 * 2^k for 2^k <= n < 2^(k+1)
FloorIncrease(cur) ==
  LET n == (cur * increaseFactorPercent) \div 100
  IN IF cur % 20 = 0 /\ 4 * cur > 5 * Pow2Below(n) THEN n - 1 ELSE n

\* A decrease without the lower clamp
UnclampedDecrease(cur) == FloorDecrease(cur)

\* Math.max(minimumAvailableBitrate, Math.floor(currentBitrate * decreaseFactor))
DecreasedBitrate(cur) == Max(minimumAvailableOutgoingBitrate, FloorDecrease(cur))

\* Math.min(maximumAvailableBitrate, Math.floor(currentBitrate * increaseFactor))
IncreasedBitrate(cur) == Min(maximumAvailableOutgoingBitrate, FloorIncrease(cur))

\* currentRtt > lastRtt * sensitivityFactor && currentRtt > minRtt * 1.5
Congested(currentRtt, lastRtt) ==
  /\ currentRtt * 10 > lastRtt * sensitivityFactorTenths
  /\ currentRtt * 10 > minRtt * 15

\* currentRtt < minRtt * 1.2
Stable(currentRtt) == currentRtt * 10 < minRtt * 12

IdleCycle == [pc |-> "idle", rtt |-> 0, lastRtt |-> 0, sinceNow |-> 0,
              newBitrate |-> 0]

\* lastAdjustmentTime = Date.now(); lastStats = null; stableNetworkCount = 0.
\* The transport was created with initialAvailableOutgoingBitrate, which the
\* engine reports until a bitrate is set
AbrInit ==
  /\ abrTimer = TRUE
  /\ abrClosed = FALSE
  /\ maxOutgoingBitrate = initialAvailableOutgoingBitrate
  /\ sinceAdjustment = 0
  /\ lastStats = [present |-> FALSE, rtt |-> 0]
  /\ stableNetworkCount = 0
  /\ cycles = [i \in CycleIds |-> IdleCycle]
  /\ adjustments = 0
  /\ stableRun = 0

Later(ms) == Min(ms + detectionInterval, ElapsedCap)

\* a callback that never looks at transport.closed: every tick starts a cycle
TickIgnoringClose ==
  /\ abrTimer
  /\ sinceAdjustment' = Later(sinceAdjustment)
  /\ \E i \in CycleIds :
       /\ cycles[i].pc = "idle"
       /\ cycles' = [cycles EXCEPT ![i].pc = "getStats"]
  /\ UNCHANGED <<abrTimer, abrClosed, maxOutgoingBitrate, lastStats,
                 stableNetworkCount, adjustments, stableRun>>
  /\ UNCHANGED <<graphVars, hlsVars, poolVars, storeVars, sideVars>>

\* detectionInterval passes and the timer fires: a closed transport clears
\* the timer, otherwise the callback starts and suspends in getStats()
AbrTick ==
  /\ abrTimer
  /\ sinceAdjustment' = Later(sinceAdjustment)
  /\ LET aged == [i \in CycleIds |->
                    IF cycles[i].pc = "idle" THEN cycles[i]
                    ELSE [cycles[i] EXCEPT !.sinceNow = Later(@)]]
     IN IF abrClosed
          THEN /\ abrTimer' = FALSE
               /\ cycles' = aged
          ELSE /\ \E i \in CycleIds :
                    /\ cycles[i].pc = "idle"
                    /\ \A j \in CycleIds : j < i => cycles[j].pc # "idle"
                    /\ cycles' = [aged EXCEPT ![i].pc = "getStats"]
               /\ UNCHANGED abrTimer
  /\ UNCHANGED <<abrClosed, maxOutgoingBitrate, lastStats, stableNetworkCount,
                 adjustments, stableRun>>
  /\ UNCHANGED <<graphVars, hlsVars, poolVars, storeVars, sideVars>>

\* getStats() resolves with a sample whose video RTT is rtt (or rejects on a
\* closed transport: the catch logs).  Up to the next await:
\*   no lastStats: store the sample; an RTT missing or 0: return;
\*   inside the throttle window: return; otherwise read the current bitrate
AbrStats(i, rtt) ==
  /\ cycles[i].pc = "getStats"
  /\ IF abrClosed
       THEN /\ cycles' = [cycles EXCEPT ![i] = IdleCycle]
            /\ UNCHANGED lastStats
     ELSE IF ~lastStats.present
       THEN /\ lastStats' = [present |-> TRUE, rtt |-> rtt]
            /\ cycles' = [cycles EXCEPT ![i] = IdleCycle]
     ELSE IF rtt = 0 \/ lastStats.rtt = 0
       THEN /\ cycles' = [cycles EXCEPT ![i] = IdleCycle]
            /\ UNCHANGED lastStats
     ELSE IF sinceAdjustment < adjustmentThrottleMs
       THEN /\ cycles' = [cycles EXCEPT ![i] = IdleCycle]
            /\ UNCHANGED lastStats
     ELSE /\ cycles' = [cycles EXCEPT ![i] =
                          [IdleCycle EXCEPT !.pc = "getBitrate", !.rtt = rtt,
                                            !.lastRtt = lastStats.rtt]]
          /\ UNCHANGED lastStats
  /\ UNCHANGED <<abrTimer, abrClosed, maxOutgoingBitrate, sinceAdjustment,
                 stableNetworkCount, adjustments, stableRun>>
  /\ UNCHANGED <<graphVars, hlsVars, poolVars, storeVars, sideVars>>

\* getMaxOutgoingBitrate() resolves with the current bitrate; the network
\* state is classified and, for an adjustment, setMaxOutgoingBitrate is called
AbrBitrateRead(i) ==
  /\ cycles[i].pc = "getBitrate"
  /\ LET cy == cycles[i]
         cur == maxOutgoingBitrate
     IN IF abrClosed
          THEN /\ cycles' = [cycles EXCEPT ![i] = IdleCycle]
               /\ UNCHANGED <<lastStats, stableNetworkCount, adjustments,
                              stableRun>>
        ELSE IF Congested(cy.rtt, cy.lastRtt)
          THEN /\ adjustments < MaxAdjustments
               /\ stableRun' = 0
               /\ cycles' = [cycles EXCEPT ![i] =
                               [cy EXCEPT !.pc = "setBitrate",
                                          !.newBitrate = DecreasedBitrate(cur)]]
               /\ adjustments' = adjustments + 1
               /\ UNCHANGED <<lastStats, stableNetworkCount>>
        ELSE IF Stable(cy.rtt)
          THEN IF stableNetworkCount + 1 >= stableNetworkThreshold
                 THEN /\ adjustments < MaxAdjustments
                      /\ stableNetworkCount' = stableNetworkCount + 1
                      /\ cycles' = [cycles EXCEPT ![i] =
                                      [cy EXCEPT !.pc = "setBitrate",
                                                 !.newBitrate =
                                                    IncreasedBitrate(cur)]]
                      /\ adjustments' = adjustments + 1
                      /\ stableRun' = 0
                      /\ UNCHANGED lastStats
                 ELSE /\ stableNetworkCount' = stableNetworkCount + 1
                      /\ stableRun' = Min(stableRun + 1, stableNetworkThreshold)
                      /\ lastStats' = [present |-> TRUE, rtt |-> cy.rtt]
                      /\ cycles' = [cycles EXCEPT ![i] = IdleCycle]
                      /\ UNCHANGED adjustments
        ELSE /\ stableNetworkCount' = 0
             /\ stableRun' = 0
             /\ lastStats' = [present |-> TRUE, rtt |-> cy.rtt]
             /\ cycles' = [cycles EXCEPT ![i] = IdleCycle]
             /\ UNCHANGED adjustments
  /\ UNCHANGED <<abrTimer, abrClosed, maxOutgoingBitrate, sinceAdjustment>>
  /\ UNCHANGED <<graphVars, hlsVars, poolVars, storeVars, sideVars>>

\* setMaxOutgoingBitrate(newBitrate) resolves: the engine holds the new
\* bitrate; lastAdjustmentTime = now; stableNetworkCount = 0; lastStats = stats
AbrApplied(i) ==
  /\ cycles[i].pc = "setBitrate"
  /\ IF abrClosed
       THEN /\ cycles' = [cycles EXCEPT ![i] = IdleCycle]
            /\ UNCHANGED <<maxOutgoingBitrate, sinceAdjustment, lastStats,
                           stableNetworkCount, stableRun>>
       ELSE /\ maxOutgoingBitrate' = cycles[i].newBitrate
            /\ sinceAdjustment' = cycles[i].sinceNow
            /\ stableNetworkCount' = 0
            /\ stableRun' = 0
            /\ lastStats' = [present |-> TRUE, rtt |-> cycles[i].rtt]
            /\ cycles' = [cycles EXCEPT ![i] = IdleCycle]
  /\ UNCHANGED <<abrTimer, abrClosed, adjustments>>
  /\ UNCHANGED <<graphVars, hlsVars, poolVars, storeVars, sideVars>>

\* The transport is closed
AbrTransportClosed ==
  /\ ~abrClosed
  /\ abrClosed' = TRUE
  /\ UNCHANGED <<abrTimer, maxOutgoingBitrate, sinceAdjustment, lastStats,
                 stableNetworkCount, cycles, adjustments, stableRun>>
  /\ UNCHANGED <<graphVars, hlsVars, poolVars, storeVars, sideVars>>

AbrNext ==
  \/ AbrTick
  \/ \E i \in CycleIds, rtt \in RttSamples : AbrStats(i, rtt)
  \/ \E i \in CycleIds : AbrBitrateRead(i)
  \/ \E i \in CycleIds : AbrApplied(i)
  \/ AbrTransportClosed

----------------------------------------------------------------------------
(* HLS supervisors: HlsConverterService.js, converter.js and the entry      *)
(* RoomManager.startHlsStream.  One (room, producer) pair is supervised.    *)
(* A Conversion's id, output directory and URL are fixed when its record is *)
(* made, so a Conversion is identified by its record.                       *)

\* An encoder process.  young: the early-exit grace period after its launch
\* has not passed.  watch: the 'exit' listener HlsConverterService has on it
\* ("early": earlyExitHandler of _spawnFfmpeg, "crash": the restart handler).
\* waiter: who awaits _spawnFfmpeg ("start" call, or "restart").
\* by: launched by a start call or by a restart timer.  afterStop: the
\* Conversion had been stopped when the process was launched.
NewEncoder(cv, watch, waiter, call, by) ==
  [conv |-> cv, state |-> "running", code |-> "none", young |-> TRUE,
   early |-> FALSE, watch |-> watch, waiter |-> waiter, call |-> call,
   by |-> by, afterStop |-> convObjs[cv].stopped]

NewConversion == [transport |-> 0, consumer |-> FALSE, process |-> 0,
                  rtpInfo |-> FALSE, stopped |-> FALSE, removing |-> FALSE]

\* after: the call was issued after a start call had finished, first: the
\* outcome of that call; sinceStop: no stop has been called since the issue
IdleHlsCall == [pc |-> "idle", conv |-> 0, after |-> FALSE, sinceStop |-> FALSE,
                first |-> [some |-> FALSE, result |-> "none", value |-> 0],
                allocated |-> 0, spawned |-> 0, result |-> "none", value |-> 0]

HlsInit ==
  /\ hls \in HlsImpls
  /\ conversions = 0
  /\ convObjs = <<>>
  /\ encoders = <<>>
  /\ ffmpegProcesses = 0
  /\ timers = {}
  /\ plainTransports = 0
  /\ hlsCalls = [c \in HlsCallIds |-> IdleHlsCall]
  /\ firstStart = [some |-> FALSE, result |-> "none", value |-> 0]
  /\ sourceClosed = FALSE
  /\ stopMissed = FALSE

HlsNoneDone == \A c \in HlsCallIds : hlsCalls[c].pc # "done"

HlsFreeSlot(c) == /\ HlsNoneDone
                  /\ hlsCalls[c].pc = "idle"
                  /\ \A d \in HlsCallIds : d < c => hlsCalls[d].pc # "idle"

\* A start call as it is issued
NewStart == [IdleHlsCall EXCEPT !.after = firstStart.some, !.first = firstStart,
                                !.sinceStop = TRUE]

HlsFinish(call, res, val) == [call EXCEPT !.pc = "done", !.result = res,
                                          !.value = val]

\* The first start call issued and finished after the last stop is remembered
NoteStart(call, res, val) ==
  IF firstStart.some \/ ~call.sinceStop THEN firstStart
  ELSE [some |-> TRUE, result |-> res, value |-> val]

\* A stop is called: the start calls in flight no longer follow one another
\* without a stop in between
StopNoted == [c \in HlsCallIds |-> [hlsCalls[c] EXCEPT !.after = FALSE,
                                                       !.sinceStop = FALSE]]

\* process.kill(signal) on a running process; it exits later
Kill(encs, e) ==
  IF e # 0 /\ encs[e].state = "running"
    THEN [encs EXCEPT ![e].state = "killed"]
    ELSE encs

\* The caller takes the result of a finished start call
HlsReturn(c) ==
  /\ hlsCalls[c].pc = "done"
  /\ hlsCalls' = [hlsCalls EXCEPT ![c] = IdleHlsCall]
  /\ UNCHANGED <<hls, conversions, convObjs, encoders, ffmpegProcesses, timers,
                 plainTransports, firstStart>>
  /\ UNCHANGED <<graphVars, abrVars, sourceClosed, stopMissed, poolVars, storeVars, sideVars>>

\* HlsConverterService.startConversion(roomId, router, producer): an existing
\* Conversion is returned; otherwise the call suspends in mkdir and
\* router.createPlainTransport
HcsStartConversion(c) ==
  /\ hls = "HlsConverterService"
  /\ HlsFreeSlot(c)
  /\ ~sourceClosed
  /\ IF conversions # 0
       THEN /\ hlsCalls' = [hlsCalls EXCEPT ![c] =
                              HlsFinish(NewStart, "ok", conversions)]
            /\ firstStart' = NoteStart(NewStart, "ok", conversions)
            /\ UNCHANGED convObjs
       ELSE /\ Len(convObjs) < MaxConversions
            /\ convObjs' = Append(convObjs, NewConversion)
            /\ hlsCalls' = [hlsCalls EXCEPT ![c] =
                              [NewStart EXCEPT !.pc = "transport",
                                               !.conv = Len(convObjs) + 1]]
            /\ UNCHANGED firstStart
  /\ UNCHANGED <<hls, conversions, encoders, ffmpegProcesses, timers,
                 plainTransports>>
  /\ UNCHANGED <<graphVars, abrVars, sourceClosed, stopMissed, poolVars, storeVars, sideVars>>

\* createPlainTransport resolves; the call suspends in producer.consume and
\* rtpTransport.connect
HcsTransportCreated(c) ==
  /\ hls = "HlsConverterService"
  /\ HlsNoneDone
  /\ hlsCalls[c].pc = "transport"
  /\ plainTransports' = plainTransports + 1
  /\ convObjs' = [convObjs EXCEPT ![hlsCalls[c].conv].transport =
                                     plainTransports + 1]
  /\ hlsCalls' = [hlsCalls EXCEPT ![c].pc = "consumer", ![c].allocated = @ + 1]
  /\ UNCHANGED <<hls, conversions, encoders, ffmpegProcesses, timers, firstStart>>
  /\ UNCHANGED <<graphVars, abrVars, sourceClosed, stopMissed, poolVars, storeVars, sideVars>>

\* consume and connect resolve; _spawnFfmpeg spawns the encoder and waits for
\* its early exit or the end of the grace period.  On a producer that has
\* closed meanwhile consume rejects and the call fails in the catch block
HcsConsumerCreated(c) ==
  /\ hls = "HlsConverterService"
  /\ HlsNoneDone
  /\ hlsCalls[c].pc = "consumer"
  /\ Len(encoders) < MaxEncoders
  /\ IF sourceClosed
       THEN /\ hlsCalls' = [hlsCalls EXCEPT ![c] =
                              HlsFinish(hlsCalls[c], "EngineError", 0)]
            /\ firstStart' = NoteStart(hlsCalls[c], "EngineError", 0)
            /\ UNCHANGED <<convObjs, encoders>>
       ELSE /\ convObjs' = [convObjs EXCEPT ![hlsCalls[c].conv].consumer = TRUE]
            /\ encoders' = Append(encoders,
                   NewEncoder(hlsCalls[c].conv, "early", "start", c, "start"))
            /\ hlsCalls' = [hlsCalls EXCEPT ![c].pc = "grace", ![c].spawned = @ + 1]
            /\ UNCHANGED firstStart
  /\ UNCHANGED <<hls, conversions, ffmpegProcesses, timers, plainTransports>>
  /\ UNCHANGED <<graphVars, abrVars, sourceClosed, stopMissed, poolVars, storeVars, sideVars>>

RestartTimer(cv, e) == [kind |-> "restart", conv |-> cv, src |-> e]
KillTimer(cv, e) == [kind |-> "kill", conv |-> cv, src |-> e]

\* Node reports a process ended by a signal with exit code null
ExitCodes(e) == IF encoders[e].state = "killed" THEN {"null"} ELSE {"0", "1"}

Exited(e, code) == [encoders[e] EXCEPT !.state = "exited", !.code = code,
                                       !.early = encoders[e].young,
                                       !.young = FALSE, !.watch = "none",
                                       !.waiter = "none"]

\* The timer _spawnFfmpeg arms on 'spawn' fires: the early-exit listener is
\* removed and the promise resolves.  startConversion then stores the
\* Conversion and registers the restart handler; _restartFFmpeg stores the
\* process in the Conversion and registers the restart handler.  converter.js
\* has no such timer: there the step only marks the passage of the time.
GraceElapsed(e) ==
  /\ HlsNoneDone
  /\ e \in 1..Len(encoders)
  /\ encoders[e].young
  /\ encoders[e].state # "exited"
  /\ IF hls = "converter"
       THEN /\ encoders' = [encoders EXCEPT ![e].young = FALSE]
            /\ UNCHANGED <<conversions, convObjs, hlsCalls, firstStart>>
       ELSE /\ encoders' = [encoders EXCEPT ![e].young = FALSE,
                                            ![e].watch = "crash",
                                            ![e].waiter = "none"]
            /\ convObjs' = [convObjs EXCEPT ![encoders[e].conv].process = e]
            /\ IF encoders[e].waiter = "start"
                 THEN /\ conversions' = encoders[e].conv
                      /\ hlsCalls' = [hlsCalls EXCEPT ![encoders[e].call] =
                                        HlsFinish(@, "ok", encoders[e].conv)]
                      /\ firstStart' = NoteStart(hlsCalls[encoders[e].call], "ok",
                                              encoders[e].conv)
                 ELSE UNCHANGED <<conversions, hlsCalls, firstStart>>
  /\ UNCHANGED <<hls, ffmpegProcesses, timers, plainTransports>>
  /\ UNCHANGED <<graphVars, abrVars, sourceClosed, stopMissed, poolVars, storeVars, sideVars>>

\* The encoder process ends.  HlsConverterService: within the grace period
\* earlyExitHandler rejects _spawnFfmpeg (the 'close' listener returns, its
\* timeout being cleared); later the restart handler arms the 10 s timer when
\* code !== 0.  converter.js: the 'close' listener arms the 2 s timer unless
\* the code is 0 or null, and deletes the producer's ffmpegProcesses entry.
EncoderExit(e, code) ==
  /\ HlsNoneDone
  /\ e \in 1..Len(encoders)
  /\ encoders[e].state # "exited"
  /\ code \in ExitCodes(e)
  /\ encoders' = [encoders EXCEPT ![e] = Exited(e, code)]
  /\ IF hls = "converter"
       THEN /\ timers' = IF code = "1"
                           THEN timers \cup {RestartTimer(encoders[e].conv, e)}
                           ELSE timers
            /\ ffmpegProcesses' = 0
            /\ UNCHANGED <<hlsCalls, firstStart>>
       ELSE /\ timers' = IF encoders[e].watch = "crash" /\ code # "0"
                           THEN timers \cup {RestartTimer(encoders[e].conv, e)}
                           ELSE timers
            /\ IF encoders[e].watch = "early" /\ encoders[e].waiter = "start"
                 THEN /\ hlsCalls' = [hlsCalls EXCEPT ![encoders[e].call] =
                                        HlsFinish(@, "EncoderFailedToStart", 0)]
                      /\ firstStart' = NoteStart(hlsCalls[encoders[e].call],
                                              "EncoderFailedToStart", 0)
                 ELSE UNCHANGED <<hlsCalls, firstStart>>
            /\ UNCHANGED ffmpegProcesses
  /\ UNCHANGED <<hls, conversions, convObjs, plainTransports>>
  /\ UNCHANGED <<graphVars, abrVars, sourceClosed, stopMissed, poolVars, storeVars, sideVars>>

\* The restart timer fires.  HlsConverterService: if the conversion id is
\* still registered, _restartFFmpeg(conversion) kills the Conversion's process
\* and spawns a new encoder, awaiting _spawnFfmpeg.  converter.js: startFFmpeg
\* is called and its process stored in ffmpegProcesses.
RestartTimerFires(t) ==
  /\ HlsNoneDone
  /\ t \in timers
  /\ t.kind = "restart"
  /\ timers' = timers \ {t}
  /\ IF hls = "converter"
       THEN /\ Len(encoders) < MaxEncoders
            /\ encoders' = Append(encoders, NewEncoder(t.conv, "none", "none", 0, "restart"))
            /\ ffmpegProcesses' = Len(encoders) + 1
       ELSE /\ IF conversions # 0
                 THEN /\ Len(encoders) < MaxEncoders
                      /\ encoders' = Append(Kill(encoders, convObjs[t.conv].process),
                                            NewEncoder(t.conv, "early", "restart", 0,
                                                       "restart"))
                 ELSE UNCHANGED encoders
            /\ UNCHANGED ffmpegProcesses
  /\ UNCHANGED <<hls, conversions, convObjs, plainTransports, hlsCalls, firstStart>>
  /\ UNCHANGED <<graphVars, abrVars, sourceClosed, stopMissed, poolVars, storeVars, sideVars>>

NoStart == [some |-> FALSE, result |-> "none", value |-> 0]

\* HlsConverterService.stopConversion(roomId, producerId), Redis not connected
HcsStopConversion ==
  /\ hls = "HlsConverterService"
  /\ HlsNoneDone
  /\ firstStart' = NoStart
  /\ IF conversions # 0
       THEN /\ encoders' = Kill(encoders, convObjs[conversions].process)
            /\ convObjs' = [convObjs EXCEPT ![conversions].stopped = TRUE,
                                            ![conversions].consumer = FALSE,
                                            ![conversions].transport = 0]
            /\ conversions' = 0
            /\ stopMissed' = FALSE
       ELSE /\ stopMissed' = TRUE
            /\ UNCHANGED <<encoders, convObjs, conversions>>
  /\ hlsCalls' = StopNoted
  /\ UNCHANGED <<hls, ffmpegProcesses, timers, plainTransports>>
  /\ UNCHANGED <<graphVars, abrVars, sourceClosed, poolVars, storeVars, sideVars>>

\* RoomManager.startHlsStream(roomId, producerId), room and producer present:
\* suspends in createPlainRtpTransport
RmStartHlsStream(c) ==
  /\ hls = "RoomManager"
  /\ HlsFreeSlot(c)
  /\ ~sourceClosed
  /\ hlsCalls' = [hlsCalls EXCEPT ![c] = [NewStart EXCEPT !.pc = "rtpTransport"]]
  /\ UNCHANGED <<hls, conversions, convObjs, encoders, ffmpegProcesses, timers,
                 plainTransports, firstStart>>
  /\ UNCHANGED <<graphVars, abrVars, sourceClosed, stopMissed, poolVars, storeVars, sideVars>>

\* createPlainRtpTransport returns; suspends in router.createPlainTransport
RmRtpTransportCreated(c) ==
  /\ hls = "RoomManager"
  /\ HlsNoneDone
  /\ hlsCalls[c].pc = "rtpTransport"
  /\ plainTransports < MaxPlainTransports
  /\ plainTransports' = plainTransports + 1
  /\ hlsCalls' = [hlsCalls EXCEPT ![c].pc = "rtpConsumer", ![c].allocated = @ + 1]
  /\ UNCHANGED <<hls, conversions, convObjs, encoders, ffmpegProcesses, timers,
                 firstStart>>
  /\ UNCHANGED <<graphVars, abrVars, sourceClosed, stopMissed, poolVars, storeVars, sideVars>>

\* The second plain transport is created; startConversion(roomId, port, ip,
\* kind) takes the ip string for the producer, so path.join(outputPath,
\* roomId, undefined) throws a TypeError before anything is registered
RmRtpConsumerCreated(c) ==
  /\ hls = "RoomManager"
  /\ HlsNoneDone
  /\ hlsCalls[c].pc = "rtpConsumer"
  /\ plainTransports < MaxPlainTransports
  /\ plainTransports' = plainTransports + 1
  /\ hlsCalls' = [hlsCalls EXCEPT ![c] =
                    HlsFinish([@ EXCEPT !.allocated = @ + 1], "TypeError", 0)]
  /\ firstStart' = NoteStart(hlsCalls[c], "TypeError", 0)
  /\ UNCHANGED <<hls, conversions, convObjs, encoders, ffmpegProcesses, timers>>
  /\ UNCHANGED <<graphVars, abrVars, sourceClosed, stopMissed, poolVars, storeVars, sideVars>>

\* RoomManager.stopHlsStream(roomId): stopConversion(roomId, undefined) finds
\* no conversion under "<roomId>-undefined" and returns
RmStopHlsStream ==
  /\ hls = "RoomManager"
  /\ HlsNoneDone
  /\ firstStart' = NoStart
  /\ hlsCalls' = StopNoted
  /\ stopMissed' = TRUE
  /\ UNCHANGED <<hls, conversions, convObjs, encoders, ffmpegProcesses, timers,
                 plainTransports>>
  /\ UNCHANGED <<graphVars, abrVars, sourceClosed, poolVars, storeVars, sideVars>>

\* converter.js addProducer(producer, roomId), a video producer: a registered
\* producer's record is returned; otherwise the record is stored at once and
\* the call suspends in mkdir
ConvAddProducer(c) ==
  /\ hls = "converter"
  /\ HlsFreeSlot(c)
  /\ ~sourceClosed
  /\ IF conversions # 0
       THEN /\ hlsCalls' = [hlsCalls EXCEPT ![c] =
                              HlsFinish(NewStart, "ok", conversions)]
            /\ firstStart' = NoteStart(NewStart, "ok", conversions)
            /\ UNCHANGED <<convObjs, conversions>>
       ELSE /\ Len(convObjs) < MaxConversions
            /\ convObjs' = Append(convObjs, NewConversion)
            /\ conversions' = Len(convObjs) + 1
            /\ hlsCalls' = [hlsCalls EXCEPT ![c] =
                              [NewStart EXCEPT !.pc = "mkdir",
                                               !.conv = Len(convObjs) + 1]]
            /\ UNCHANGED firstStart
  /\ UNCHANGED <<hls, encoders, ffmpegProcesses, timers, plainTransports>>
  /\ UNCHANGED <<graphVars, abrVars, sourceClosed, stopMissed, poolVars, storeVars, sideVars>>

\* mkdir resolves: setupRtpTransport calls startFFmpeg, which spawns the
\* encoder and returns it at once; the process is stored in ffmpegProcesses,
\* rtpInfo and hlsUrl are set and the record is returned
ConvMkdirDone(c) ==
  /\ hls = "converter"
  /\ HlsNoneDone
  /\ hlsCalls[c].pc = "mkdir"
  /\ Len(encoders) < MaxEncoders
  /\ encoders' = Append(encoders, NewEncoder(hlsCalls[c].conv, "none", "none", 0, "start"))
  /\ ffmpegProcesses' = Len(encoders) + 1
  /\ convObjs' = [convObjs EXCEPT ![hlsCalls[c].conv].rtpInfo = TRUE]
  /\ hlsCalls' = [hlsCalls EXCEPT ![c] =
                    HlsFinish([@ EXCEPT !.spawned = @ + 1], "ok", hlsCalls[c].conv)]
  /\ firstStart' = NoteStart(hlsCalls[c], "ok", hlsCalls[c].conv)
  /\ UNCHANGED <<hls, conversions, timers, plainTransports>>
  /\ UNCHANGED <<graphVars, abrVars, sourceClosed, stopMissed, poolVars, storeVars, sideVars>>

\* removeProducer with stopFFmpeg moved before the lookup of the record
StopBeforeLookup ==
  /\ stopMissed' = (conversions = 0)
  /\ encoders' = Kill(encoders, ffmpegProcesses)
  /\ timers' = IF ffmpegProcesses # 0
                 THEN timers \cup {KillTimer(conversions, ffmpegProcesses)}
                 ELSE timers
  /\ convObjs' = IF conversions = 0 THEN convObjs
                 ELSE [convObjs EXCEPT
                         ![conversions].stopped = TRUE,
                         ![conversions].removing = convObjs[conversions].rtpInfo]
  /\ conversions' = IF conversions # 0 /\ convObjs[conversions].rtpInfo
                      THEN conversions ELSE 0

\* body of converter.js removeProducer up to its first suspension
RemoveProducer ==
  IF conversions # 0
    THEN /\ stopMissed' = FALSE
         /\ encoders' = Kill(encoders, ffmpegProcesses)
         /\ timers' = IF ffmpegProcesses # 0
                        THEN timers \cup {KillTimer(conversions, ffmpegProcesses)}
                        ELSE timers
         /\ convObjs' = [convObjs EXCEPT
                           ![conversions].stopped = TRUE,
                           ![conversions].removing = convObjs[conversions].rtpInfo]
         /\ conversions' = IF convObjs[conversions].rtpInfo THEN conversions ELSE 0
    ELSE /\ stopMissed' = TRUE
         /\ UNCHANGED <<encoders, timers, convObjs, conversions>>

\* converter.js removeProducer(producerId): stopFFmpeg
\* sends SIGTERM to the producer's process and arms the 5 s kill timer; with
\* rtpInfo set the call suspends in cleanupDirectory, else the record is
\* deleted at once
ConvRemoveProducer ==
  /\ hls = "converter"
  /\ HlsNoneDone
  /\ firstStart' = NoStart
  /\ RemoveProducer
  /\ hlsCalls' = StopNoted
  /\ UNCHANGED <<hls, ffmpegProcesses, plainTransports>>
  /\ UNCHANGED <<graphVars, abrVars, sourceClosed, poolVars, storeVars, sideVars>>

\* the hook of converter.js addProducer on the producer's observer, registered
\* once addProducer has set up the stream
CloseHookArmed == \E i \in 1..Len(convObjs) : convObjs[i].rtpInfo

\* The source producer closes (its client left, its transport or its room
\* closed); the engine closes the consumers of the producer.  converter.js
\* runs removeProducer from its hook; HlsConverterService.startConversion and
\* RoomManager.startHlsStream register no listener on the producer, consumer
\* or transport, so nothing else happens there
ProducerClosed ==
  /\ HlsNoneDone
  /\ ~sourceClosed
  /\ sourceClosed' = TRUE
  /\ IF hls = "converter"
       THEN IF CloseHookArmed THEN RemoveProducer
            ELSE UNCHANGED <<encoders, timers, convObjs, conversions, stopMissed>>
       ELSE /\ convObjs' = [i \in 1..Len(convObjs) |->
                              [convObjs[i] EXCEPT !.consumer = FALSE]]
            /\ UNCHANGED <<encoders, timers, conversions, stopMissed>>
  /\ UNCHANGED <<hls, ffmpegProcesses, plainTransports, hlsCalls, firstStart>>
  /\ UNCHANGED <<graphVars, abrVars, poolVars, storeVars, sideVars>>

\* cleanupDirectory resolves: the port is released and the record deleted
ConvCleanupDone ==
  /\ hls = "converter"
  /\ HlsNoneDone
  /\ conversions # 0
  /\ convObjs[conversions].removing
  /\ convObjs' = [convObjs EXCEPT ![conversions].removing = FALSE]
  /\ conversions' = 0
  /\ UNCHANGED <<hls, encoders, ffmpegProcesses, timers, plainTransports,
                 hlsCalls, firstStart>>
  /\ UNCHANGED <<graphVars, abrVars, sourceClosed, stopMissed, poolVars, storeVars, sideVars>>

\* The 5 s timer of stopFFmpeg fires: if the producer has an ffmpegProcesses
\* entry, the process of the stop is sent SIGKILL and the entry is deleted
KillTimerFires(t) ==
  /\ hls = "converter"
  /\ HlsNoneDone
  /\ t \in timers
  /\ t.kind = "kill"
  /\ timers' = timers \ {t}
  /\ IF ffmpegProcesses # 0
       THEN /\ encoders' = Kill(encoders, t.src)
            /\ ffmpegProcesses' = 0
       ELSE UNCHANGED <<encoders, ffmpegProcesses>>
  /\ UNCHANGED <<hls, conversions, convObjs, plainTransports, hlsCalls, firstStart>>
  /\ UNCHANGED <<graphVars, abrVars, sourceClosed, stopMissed, poolVars, storeVars, sideVars>>

HlsNext ==
  \/ \E c \in HlsCallIds : HlsReturn(c)
  \/ ProducerClosed
  \/ \E c \in HlsCallIds : HcsStartConversion(c)
  \/ \E c \in HlsCallIds : HcsTransportCreated(c)
  \/ \E c \in HlsCallIds : HcsConsumerCreated(c)
  \/ \E e \in 1..MaxEncoders : GraceElapsed(e)
  \/ \E e \in 1..MaxEncoders, code \in {"0", "1", "null"} : EncoderExit(e, code)
  \/ \E t \in timers : RestartTimerFires(t)
  \/ HcsStopConversion
  \/ \E c \in HlsCallIds : RmStartHlsStream(c)
  \/ \E c \in HlsCallIds : RmRtpTransportCreated(c)
  \/ \E c \in HlsCallIds : RmRtpConsumerCreated(c)
  \/ RmStopHlsStream
  \/ \E c \in HlsCallIds : ConvAddProducer(c)
  \/ \E c \in HlsCallIds : ConvMkdirDone(c)
  \/ ConvRemoveProducer
  \/ ConvCleanupDone
  \/ \E t \in timers : KillTimerFires(t)

----------------------------------------------------------------------------
(* Specifications *)

----------------------------------------------------------------------------
(* Worker pool: death and replacement of workers, next()                   *)

\* MediasoupServer, RoomManager, RoomService and the pool of the socket
\* server (workers / createWorker / getNextWorker at module level)
PoolImpls == {"MediasoupServer", "RoomManager", "RoomService", "socketServer"}

NoWorker == [kind |-> "none", id |-> 0]

\* after initialize() / start(): the pool holds the first NumWorkers workers
PoolInit ==
  /\ pool \in PoolImpls
  /\ poolState = "running"
  /\ deadWorkers = {}
  /\ pendingWorkers = {}
  /\ createdWorkers = NumWorkers
  /\ createFailures = 0
  /\ lastWorker = NoWorker
  /\ served = <<>>

PoolMembers == {workers[i] : i \in 1..Len(workers)}

\* the last Len(workers) results of next()
Serve(w) ==
  LET all == Append(served, w)
  IN IF Len(all) > Len(workers) THEN Tail(all) ELSE all

\* nextWorkerIndex after (x + 1) % 0: NaN
NaNIndex == 0 - 1

\* this.workers[this.nextWorkerIndex]: undefined (id 0) past the end, at a
\* hole of the array or at index NaN
WorkerAtIndex ==
  IF nextWorkerIndex \in 0..(Len(workers) - 1) /\ GetNextWorker # 0
    THEN [kind |-> "worker", id |-> GetNextWorker]
    ELSE [kind |-> "undefined", id |-> 0]

\* (this.nextWorkerIndex + 1) % this.workers.length
PoolIndexAfter ==
  IF Len(workers) = 0 \/ nextWorkerIndex = NaNIndex THEN NaNIndex
  ELSE NextIndexAfter

\* _getNextWorker() / getNextWorker(): MediasoupServer and the socket server
\* throw on an empty pool; the socket server picks a random member, the
\* others take the member at nextWorkerIndex and advance the index
PoolGetNextWorker ==
  /\ poolState # "exited"
  /\ IF Len(workers) = 0 /\ pool \in {"MediasoupServer", "socketServer"}
       THEN /\ lastWorker' = [kind |-> "NoWorkersAvailable", id |-> 0]
            /\ UNCHANGED <<nextWorkerIndex, served>>
       ELSE IF pool = "socketServer"
         THEN /\ \E i \in 1..Len(workers) :
                   /\ lastWorker' = [kind |-> "worker", id |-> workers[i]]
                   /\ served' = Serve(workers[i])
              /\ UNCHANGED nextWorkerIndex
         ELSE /\ lastWorker' = WorkerAtIndex
              /\ served' = Serve(WorkerAtIndex.id)
              /\ nextWorkerIndex' = PoolIndexAfter
  /\ UNCHANGED <<pool, poolState, deadWorkers, pendingWorkers, createdWorkers,
                 createFailures, workers>>
  /\ UNCHANGED <<impl, rooms, roomObjs, peerObjs, peers, producers, consumers,
                 engRouters, engTransports, engProducers, engConsumers, calls>>
  /\ UNCHANGED <<abrVars, hlsVars, storeVars, sideVars>>

\* a died hook that leaves the dead worker in the pool
KeepDeadWorker(w) == workers

\* this.workers.filter(w => w.pid !== worker.pid)
WithoutWorker(w) == SelectSeq(workers, LAMBDA x : x # w)

\* this.workers.findIndex(w => w === deadWorker) (1-based)
IndexOfWorker(w) == CHOOSE i \in 1..Len(workers) : workers[i] = w

\* worker.on('died') for a member w of the pool.  MediasoupServer and the
\* socket server drop the worker and start a replacement; RoomManager leaves
\* the worker in place while _handleWorkerDeath awaits createWorker();
\* RoomService arms the 2 s timer of process.exit(1)
WorkerDied(w) ==
  /\ poolState # "exited"
  /\ w \in PoolMembers \ deadWorkers
  /\ deadWorkers' = deadWorkers \cup {w}
  /\ served' = <<>>
  /\ CASE pool \in {"MediasoupServer", "socketServer"} ->
            /\ workers' = WithoutWorker(w)
            \* if (!this._closed) of MediasoupServer
            /\ pendingWorkers' = IF poolState = "closed" THEN pendingWorkers
                                   ELSE pendingWorkers
                                          \cup {[dead |-> w, index |-> 0]}
            /\ UNCHANGED poolState
       [] pool = "RoomManager" ->
            /\ pendingWorkers' = pendingWorkers
                                   \cup {[dead |-> w, index |-> IndexOfWorker(w)]}
            /\ UNCHANGED <<workers, poolState>>
       [] pool = "RoomService" ->
            /\ poolState' = "exiting"
            /\ UNCHANGED <<workers, pendingWorkers>>
  /\ UNCHANGED <<pool, createdWorkers, createFailures, lastWorker,
                 nextWorkerIndex>>
  /\ UNCHANGED <<impl, rooms, roomObjs, peerObjs, peers, producers, consumers,
                 engRouters, engTransports, engProducers, engConsumers, calls>>
  /\ UNCHANGED <<abrVars, hlsVars, storeVars, sideVars>>

\* array[i] = x of JavaScript: an index past the end leaves holes (0)
StoreAt(seq, i, x) ==
  [j \in 1..Max(Len(seq), i) |->
     IF j = i THEN x ELSE IF j <= Len(seq) THEN seq[j] ELSE 0]

\* mediasoup.createWorker() of a replacement resolves: MediasoupServer and
\* the socket server push the new worker, RoomManager stores it at the index
\* of the dead one
WorkerCreated(r) ==
  /\ poolState # "exited"
  /\ r \in pendingWorkers
  /\ createdWorkers < MaxWorkerIds
  /\ createdWorkers' = createdWorkers + 1
  /\ pendingWorkers' = pendingWorkers \ {r}
  /\ served' = <<>>
  /\ workers' = IF pool = "RoomManager"
                  THEN StoreAt(workers, r.index, createdWorkers + 1)
                  ELSE Append(workers, createdWorkers + 1)
  /\ UNCHANGED <<pool, poolState, deadWorkers, createFailures, lastWorker,
                 nextWorkerIndex>>
  /\ UNCHANGED <<impl, rooms, roomObjs, peerObjs, peers, producers, consumers,
                 engRouters, engTransports, engProducers, engConsumers, calls>>
  /\ UNCHANGED <<abrVars, hlsVars, storeVars, sideVars>>

\* mediasoup.createWorker() of a replacement rejects: MediasoupServer and
\* the socket server log the error in .catch, the promise of RoomManager's
\* _handleWorkerDeath rejects with nobody awaiting it
WorkerCreateFailed(r) ==
  /\ poolState # "exited"
  /\ r \in pendingWorkers
  /\ createFailures < MaxCreateFailures
  /\ createFailures' = createFailures + 1
  /\ pendingWorkers' = pendingWorkers \ {r}
  /\ UNCHANGED <<pool, poolState, deadWorkers, createdWorkers, lastWorker, served>>
  /\ UNCHANGED <<graphVars, abrVars, hlsVars, storeVars, sideVars>>

\* MediasoupServer.close() / RoomManager.close(), from the closing of the
\* workers on: every worker is closed and this.workers is emptied
\* (RoomManager also resets nextWorkerIndex)
PoolClose ==
  /\ pool \in {"MediasoupServer", "RoomManager"}
  /\ poolState = "running"
  /\ poolState' = "closed"
  /\ deadWorkers' = deadWorkers \cup (PoolMembers \ {0})
  /\ workers' = <<>>
  /\ nextWorkerIndex' = IF pool = "RoomManager" THEN 0 ELSE nextWorkerIndex
  /\ served' = <<>>
  /\ UNCHANGED <<pool, pendingWorkers, createdWorkers, createFailures, lastWorker>>
  /\ UNCHANGED <<impl, rooms, roomObjs, peerObjs, peers, producers, consumers,
                 engRouters, engTransports, engProducers, engConsumers, calls>>
  /\ UNCHANGED <<abrVars, hlsVars, storeVars, sideVars>>

\* setTimeout(() => process.exit(1), 2000) of RoomService fires
ProcessExit ==
  /\ poolState = "exiting"
  /\ poolState' = "exited"
  /\ UNCHANGED <<pool, deadWorkers, pendingWorkers, createdWorkers,
                 createFailures, lastWorker, served>>
  /\ UNCHANGED <<graphVars, abrVars, hlsVars, storeVars, sideVars>>

PoolNext ==
  \/ PoolGetNextWorker
  \/ \E w \in 1..MaxWorkerIds : WorkerDied(w)
  \/ \E r \in pendingWorkers : WorkerCreated(r)
  \/ \E r \in pendingWorkers : WorkerCreateFailed(r)
  \/ PoolClose
  \/ ProcessExit

----------------------------------------------------------------------------
(* Segment replication: the upload loop of a running Conversion            *)

FileNames == {"playlist.m3u8", "segment0.ts"}

\* fresh: modified less than the debounce window (500 ms) ago
NoFile == [present |-> FALSE, fresh |-> FALSE]
IdlePass == [pc |-> "idle", todo |-> {}, sending |-> {}]
IdleSweep == [pc |-> "idle", expired |-> {}]

\* the key of the bucket object a file is uploaded to
s3Key(f) == <<"hls", f>>
ObjectKeys == {s3Key(f) : f \in FileNames}

\* nothing written, uploaded or swept yet; the first pass is due
StoreIdle ==
  /\ localFiles = [f \in FileNames |-> NoFile]
  /\ pass = IdlePass
  /\ passTimer = TRUE
  /\ failed = {}
  /\ sweep = IdleSweep
  /\ secondLoop = "none"

\* page: the page of the bucket listing that holds the key
StoreInit ==
  /\ StoreIdle
  /\ remote = [k \in ObjectKeys |-> [state |-> "absent", page |-> 1]]

\* the encoder writes (creates or rewrites) a file of the output directory
EncoderWrites(f) ==
  /\ localFiles' = [localFiles EXCEPT ![f] = [present |-> TRUE, fresh |-> TRUE]]
  /\ UNCHANGED <<pass, passTimer, failed, remote, sweep>>
  /\ UNCHANGED <<graphVars, abrVars, hlsVars, poolVars, secondLoop, sideVars>>

\* 500 ms pass since the last modification of the file
Settle(f) ==
  /\ localFiles[f].fresh
  /\ localFiles' = [localFiles EXCEPT ![f].fresh = FALSE]
  /\ UNCHANGED <<pass, passTimer, failed, remote, sweep>>
  /\ UNCHANGED <<graphVars, abrVars, hlsVars, poolVars, secondLoop, sideVars>>

\* uploadLoop / uploadNewFiles starts and suspends in readdir.  Passes of
\* converter.js may overlap (watcher, interval); each has its own file list
\* and its own catch blocks, and the model follows one pass at a time.  The
\* timeout of HlsConverterService has fired and is re-armed at the end of the
\* pass, the interval of converter.js stays armed; with the Conversion gone
\* uploadLoop returns at once
PassStart ==
  /\ passTimer
  /\ pass.pc = "idle"
  /\ passTimer' = (hls = "converter")
  /\ pass' = IF hls = "HlsConverterService" /\ conversions = 0 THEN pass
             ELSE [pass EXCEPT !.pc = "readdir"]
  /\ UNCHANGED <<localFiles, failed, remote, sweep>>
  /\ UNCHANGED <<graphVars, abrVars, hlsVars, poolVars, secondLoop, sideVars>>

\* readdir resolves with the .ts and .m3u8 files of the directory
DirListed ==
  /\ pass.pc = "readdir"
  /\ pass' = [pass EXCEPT !.pc = "files",
                          !.todo = {f \in FileNames : localFiles[f].present}]
  /\ UNCHANGED <<localFiles, passTimer, failed, remote, sweep>>
  /\ UNCHANGED <<graphVars, abrVars, hlsVars, poolVars, secondLoop, sideVars>>

\* converter.js: now - fileModTime < 500 skips the file in this pass;
\* HlsConverterService reads and sends every file
SkipsFile(f) == hls = "converter" /\ localFiles[f].fresh

\* The next file of the pass is read and its upload is sent (converter.js
\* takes the files one after the other, HlsConverterService all at once)
UploadStart(f) ==
  /\ pass.pc = "files"
  /\ f \in pass.todo
  /\ hls = "converter" => pass.sending = {}
  /\ pass' = [pass EXCEPT !.todo = @ \ {f},
                          !.sending = IF SkipsFile(f) THEN @ ELSE @ \cup {f}]
  /\ UNCHANGED <<localFiles, passTimer, failed, remote, sweep>>
  /\ UNCHANGED <<graphVars, abrVars, hlsVars, poolVars, secondLoop, sideVars>>

\* a pass that gave up at the first failed upload
AbortPass(p, f) == IdlePass

\* what the pass does with a failed upload: the catch block around the file
\* logs the error
AfterFailure(p, f) == [p EXCEPT !.sending = @ \ {f}]

\* s3Client.send(PutObjectCommand) of file f resolves (ok) or rejects
UploadDone(f, ok) ==
  /\ pass.pc = "files"
  /\ f \in pass.sending
  /\ pass' = IF ok THEN [pass EXCEPT !.sending = @ \ {f}] ELSE AfterFailure(pass, f)
  /\ failed' = IF ok THEN failed \ {f} ELSE failed \cup {f}
  /\ remote' = IF ok THEN [remote EXCEPT ![s3Key(f)].state = "young"] ELSE remote
  /\ UNCHANGED <<localFiles, passTimer, sweep>>
  /\ UNCHANGED <<graphVars, abrVars, hlsVars, poolVars, secondLoop, sideVars>>

\* every file of the pass has been handled: HlsConverterService arms the
\* timeout of the next pass (5 s), converter.js waits for its interval
PassEnd ==
  /\ pass.pc = "files"
  /\ pass.todo = {}
  /\ pass.sending = {}
  /\ pass' = IdlePass
  /\ passTimer' = TRUE
  /\ UNCHANGED <<localFiles, failed, remote, sweep>>
  /\ UNCHANGED <<graphVars, abrVars, hlsVars, poolVars, secondLoop, sideVars>>

\* the age of an object (now - LastModified) passes the retention window
ObjectAges(k) ==
  /\ remote[k].state = "young"
  /\ remote' = [remote EXCEPT ![k].state = "expired"]
  /\ UNCHANGED <<localFiles, pass, passTimer, failed, sweep>>
  /\ UNCHANGED <<graphVars, abrVars, hlsVars, poolVars, secondLoop, sideVars>>

\* the cleanup timer fires: ListObjectsV2 (Prefix hls/, MaxKeys 1000) is sent
SweepStart ==
  /\ sweep.pc = "idle"
  /\ sweep' = [sweep EXCEPT !.pc = "listing"]
  /\ UNCHANGED <<localFiles, pass, passTimer, failed, remote>>
  /\ UNCHANGED <<graphVars, abrVars, hlsVars, poolVars, secondLoop, sideVars>>

\* what one ListObjectsV2 response holds: the first MaxKeys keys of the prefix
Listed == {k \in ObjectKeys : remote[k].state # "absent" /\ remote[k].page = 1}

\* the listing resolves; its expired objects are filtered and their
\* DeleteObject commands are sent.  No continuation token is followed
SweepListed ==
  /\ sweep.pc = "listing"
  /\ LET expiredObjects == {k \in Listed : remote[k].state = "expired"}
     IN sweep' = IF expiredObjects = {} THEN IdleSweep
                 ELSE [pc |-> "deleting", expired |-> expiredObjects]
  /\ UNCHANGED <<localFiles, pass, passTimer, failed, remote>>
  /\ UNCHANGED <<graphVars, abrVars, hlsVars, poolVars, secondLoop, sideVars>>

\* the bucket executes the DeleteObject of key k
SweepDelete(k) ==
  /\ sweep.pc = "deleting"
  /\ k \in sweep.expired
  /\ remote' = [remote EXCEPT ![k].state = "absent"]
  /\ sweep' = [sweep EXCEPT !.expired = @ \ {k}]
  /\ UNCHANGED <<localFiles, pass, passTimer, failed>>
  /\ UNCHANGED <<graphVars, abrVars, hlsVars, poolVars, secondLoop, sideVars>>

\* every batch has been deleted
SweepEnd ==
  /\ sweep.pc = "deleting"
  /\ sweep.expired = {}
  /\ sweep' = IdleSweep
  /\ UNCHANGED <<localFiles, pass, passTimer, failed, remote>>
  /\ UNCHANGED <<graphVars, abrVars, hlsVars, poolVars, secondLoop, sideVars>>

\* startConversion is called for the pair again after a stop, from its entry
\* to conversions.set and _startS3Uploader(conversion) (the steps in between
\* are those of HcsStartConversion .. GraceElapsed): the new Conversion is
\* registered under the id of the pair and the first uploadLoop() call of its
\* loop suspends in readdir
Restarted ==
  /\ hls = "HlsConverterService"
  /\ HlsNoneDone
  /\ ~sourceClosed
  /\ conversions = 0
  /\ Len(convObjs) < MaxConversions
  /\ Len(encoders) < MaxEncoders
  /\ secondLoop = "none"
  /\ convObjs' = Append(convObjs,
                        [NewConversion EXCEPT !.transport = plainTransports + 1,
                                              !.consumer = TRUE,
                                              !.process = Len(encoders) + 1])
  /\ encoders' = Append(encoders,
                        [conv |-> Len(convObjs) + 1, state |-> "running",
                         code |-> "none", young |-> FALSE, early |-> FALSE,
                         watch |-> "crash", waiter |-> "none", call |-> 1,
                         by |-> "start", afterStop |-> FALSE])
  /\ plainTransports' = plainTransports + 1
  /\ conversions' = Len(convObjs) + 1
  /\ secondLoop' = "running"
  /\ UNCHANGED <<hls, ffmpegProcesses, timers, hlsCalls, firstStart,
                 sourceClosed, stopMissed>>
  /\ UNCHANGED <<localFiles, pass, passTimer, failed, remote, sweep>>
  /\ UNCHANGED <<graphVars, abrVars, poolVars, sideVars>>

\* the pass of the second loop ends (its files are not followed one by one):
\* timeout = setTimeout(uploadLoop, 5000)
SecondPassEnd ==
  /\ secondLoop = "running"
  /\ secondLoop' = "armed"
  /\ UNCHANGED <<localFiles, pass, passTimer, failed, remote, sweep>>
  /\ UNCHANGED <<graphVars, abrVars, hlsVars, poolVars, sideVars>>

\* the timeout of the second loop fires: uploadLoop returns when no
\* Conversion is registered for the pair, else its next pass starts
SecondPassStart ==
  /\ secondLoop = "armed"
  /\ secondLoop' = IF conversions = 0 THEN "none" ELSE "running"
  /\ UNCHANGED <<localFiles, pass, passTimer, failed, remote, sweep>>
  /\ UNCHANGED <<graphVars, abrVars, hlsVars, poolVars, sideVars>>

UploadNext ==
  \/ \E f \in FileNames : EncoderWrites(f)
  \/ \E f \in FileNames : Settle(f)
  \/ PassStart
  \/ DirListed
  \/ \E f \in FileNames : UploadStart(f)
  \/ \E f \in FileNames, ok \in BOOLEAN : UploadDone(f, ok)
  \/ PassEnd
  \/ \E k \in ObjectKeys : ObjectAges(k)
  \/ SweepStart
  \/ SweepListed
  \/ \E k \in ObjectKeys : SweepDelete(k)
  \/ SweepEnd
  \/ HcsStopConversion
  \/ Restarted
  \/ SecondPassEnd
  \/ SecondPassStart

GraphNext ==
  \/ \E c \in CallIds, r \in RoomIds : GetOrCreateRoom(c, r)
  \/ \E c \in CallIds : RouterCreated(c)
  \/ \E c \in CallIds : Return(c)
  \/ \E c \in CallIds, r \in RoomIds, p \in PeerIds : CreateWebRtcTransport(c, r, p)
  \/ \E c \in CallIds, r \in RoomIds, p \in PeerIds : CreatePeer(c, r, p)
  \/ \E c \in CallIds : TransportCreated(c)
  \/ \E c \in CallIds : MaxIncomingSet(c)
  \/ \E r \in RoomIds, p \in PeerIds, caps \in CapabilitySets :
       SetRtpCapabilities(r, p, caps)
  \/ \E c \in CallIds, r \in RoomIds, p \in PeerIds, t \in 1..MaxTransports,
        codec \in ProducerCodecs : CreateProducer(c, r, p, t, codec)
  \/ \E c \in CallIds : Produced(c)
  \/ \E c \in CallIds, r \in RoomIds, p \in PeerIds, p2 \in PeerIds,
        pid \in 1..MaxProducers, t \in 1..MaxTransports, caps \in CapabilitySets :
       CreateConsumer(c, r, p, p2, pid, t, caps)
  \/ \E c \in CallIds : Consumed(c)
  \/ \E r \in RoomIds, p \in PeerIds : MsClosePeer(r, p)
  \/ \E r \in RoomIds, p \in PeerIds : RsClosePeer(p, r)
  \/ \E r \in RoomIds : RmCloseRoom(r)
  \/ \E c \in CallIds, r \in RoomIds : RsCloseRoom(c, r)
  \/ \E c \in CallIds : RsHlsStopped(c)

----------------------------------------------------------------------------
(* The socket server's rooms and their Redis entries: createRoom *)

SockRoomIds == {"r1", "r2"}
MaxSockCalls == 2
MaxSockRouters == 3
SockCallIds == 1..MaxSockCalls

\* result: "none", "room" (value: the room object, named by its router),
\* "cacheEntry" (the object parsed from the Redis entry, which has no
\* router) or "cacheError" (the rejection of a Redis command, rethrown)
IdleSockCall == [pc |-> "none", room |-> "none", result |-> "none", value |-> 0]

CacheInit ==
  /\ sockRooms = [r \in SockRoomIds |-> 0]
  /\ sockRouters = 0
  /\ cacheRooms = {}
  /\ sockCalls = [c \in SockCallIds |-> IdleSockCall]

SockCallsInFlight == {c \in SockCallIds : sockCalls[c].pc \notin {"none", "done"}}

\* createRoom(roomId) up to its first await: redisGetAsync is issued
CreateRoomCalled(c, r) ==
  /\ sockCalls[c].pc \in {"none", "done"}
  /\ sockRouters + Cardinality(SockCallsInFlight) < MaxSockRouters
  /\ sockCalls' = [sockCalls EXCEPT ![c] = [IdleSockCall EXCEPT !.pc = "get", !.room = r]]
  /\ UNCHANGED <<sockRooms, sockRouters, cacheRooms>>
  /\ UNCHANGED <<graphVars, abrVars, hlsVars, poolVars, storeVars, clientVars, portVars>>

\* The reply of redisGetAsync: a rejection is caught, logged and rethrown; an
\* entry is parsed and returned; otherwise rooms is consulted and, when it
\* has no room, createRouter() is awaited
CacheGetReturns(c, ok) ==
  LET r == sockCalls[c].room IN
  /\ sockCalls[c].pc = "get"
  /\ sockCalls' = [sockCalls EXCEPT ![c] =
       IF ~ok THEN [@ EXCEPT !.pc = "done", !.result = "cacheError"]
       ELSE IF r \in cacheRooms THEN [@ EXCEPT !.pc = "done", !.result = "cacheEntry"]
       ELSE IF sockRooms[r] # 0
            THEN [@ EXCEPT !.pc = "done", !.result = "room", !.value = sockRooms[r]]
       ELSE [@ EXCEPT !.pc = "createRouter"]]
  /\ UNCHANGED <<sockRooms, sockRouters, cacheRooms>>
  /\ UNCHANGED <<graphVars, abrVars, hlsVars, poolVars, storeVars, clientVars, portVars>>

\* createRouter() has resolved: the room is built, rooms.set(roomId, room),
\* and redisSetAsync is issued
SockRouterCreated(c) ==
  /\ sockCalls[c].pc = "createRouter"
  /\ sockRouters' = sockRouters + 1
  /\ sockRooms' = [sockRooms EXCEPT ![sockCalls[c].room] = sockRouters + 1]
  /\ sockCalls' = [sockCalls EXCEPT ![c].pc = "set", ![c].value = sockRouters + 1]
  /\ UNCHANGED cacheRooms
  /\ UNCHANGED <<graphVars, abrVars, hlsVars, poolVars, storeVars, clientVars, portVars>>

\* The reply of redisSetAsync: the room is returned, or the rejection is
\* caught, logged and rethrown
CacheSetReturns(c, ok) ==
  /\ sockCalls[c].pc = "set"
  /\ cacheRooms' = IF ok THEN cacheRooms \cup {sockCalls[c].room} ELSE cacheRooms
  /\ sockCalls' = [sockCalls EXCEPT ![c].pc = "done",
                                    ![c].result = IF ok THEN "room" ELSE "cacheError",
                                    ![c].value = IF ok THEN @ ELSE 0]
  /\ UNCHANGED <<sockRooms, sockRouters>>
  /\ UNCHANGED <<graphVars, abrVars, hlsVars, poolVars, storeVars, clientVars, portVars>>

\* The entry was written with EX 3600 and expires
CacheExpires(r) ==
  /\ r \in cacheRooms
  /\ cacheRooms' = cacheRooms \ {r}
  /\ UNCHANGED <<sockRooms, sockRouters, sockCalls>>
  /\ UNCHANGED <<graphVars, abrVars, hlsVars, poolVars, storeVars, clientVars, portVars>>

\* The disconnect handler when the last socket of the room has left:
\* redisDelAsync, then rooms.delete(roomId); a rejected delete leaves the room
LastSocketLeft(r, ok) ==
  /\ sockRooms[r] # 0
  /\ cacheRooms' = IF ok THEN cacheRooms \ {r} ELSE cacheRooms
  /\ sockRooms' = IF ok THEN [sockRooms EXCEPT ![r] = 0] ELSE sockRooms
  /\ UNCHANGED <<sockRouters, sockCalls>>
  /\ UNCHANGED <<graphVars, abrVars, hlsVars, poolVars, storeVars, clientVars, portVars>>

CacheNext ==
  \/ \E c \in SockCallIds, r \in SockRoomIds : CreateRoomCalled(c, r)
  \/ \E c \in SockCallIds, ok \in BOOLEAN : CacheGetReturns(c, ok)
  \/ \E c \in SockCallIds : SockRouterCreated(c)
  \/ \E c \in SockCallIds, ok \in BOOLEAN : CacheSetReturns(c, ok)
  \/ \E r \in SockRoomIds : CacheExpires(r)
  \/ \E r \in SockRoomIds, ok \in BOOLEAN : LastSocketLeft(r, ok)

----------------------------------------------------------------------------
(* The cache client: ElastiCacheService connect and _scheduleReconnect *)

maxReconnectAttempts == 10
\* retryStrategy: a client gives up after this many retries of its own
maxClientRetries == 10
MaxClients == 2
AttemptsCap == 12

ClientInit ==
  /\ serverUp = TRUE
  /\ connected = FALSE
  /\ reconnecting = FALSE
  /\ reconnectAttempts = 0
  /\ reconnectTimeout = FALSE
  /\ pendingTimers = 0
  /\ timerAttempt = FALSE
  /\ callerAttempt = FALSE
  /\ clients = 0

\* _scheduleReconnect() arms a timer, given the fields it reads
Schedules(isReconnecting, hasTimeout, attempts) ==
  /\ ~(isReconnecting \/ hasTimeout)
  /\ attempts < maxReconnectAttempts

\* connect() called at startup or by get/set/del while not connected, up to
\* the await of ping(): a new client is created and its handlers installed
ConnectCalled ==
  /\ ~connected
  /\ ~callerAttempt
  /\ clients < MaxClients
  /\ callerAttempt' = TRUE
  /\ clients' = clients + 1
  /\ UNCHANGED <<serverUp, connected, reconnecting, reconnectAttempts,
                 reconnectTimeout, pendingTimers, timerAttempt>>
  /\ UNCHANGED <<graphVars, abrVars, hlsVars, poolVars, storeVars, cacheVars, portVars>>

\* The reconnect timer fires: reconnectTimeout = null, reconnecting = true,
\* connect() up to the await of ping(); when connected, connect() returns
\* at once and reconnecting is reset
ReconnectTimerFires ==
  /\ pendingTimers > 0
  /\ pendingTimers' = pendingTimers - 1
  /\ reconnectTimeout' = FALSE
  /\ reconnecting' = ~connected
  /\ timerAttempt' = (timerAttempt \/ ~connected)
  /\ clients' = IF connected THEN clients ELSE Min(clients + 1, MaxClients)
  /\ UNCHANGED <<serverUp, connected, reconnectAttempts, callerAttempt>>
  /\ UNCHANGED <<graphVars, abrVars, hlsVars, poolVars, storeVars, cacheVars, portVars>>

\* ping() resolves: connected = true, connect() returns true; the timer
\* callback then resets reconnecting
PingResolved(byTimer) ==
  /\ serverUp
  /\ IF byTimer THEN timerAttempt ELSE callerAttempt
  /\ connected' = TRUE
  /\ timerAttempt' = IF byTimer THEN FALSE ELSE timerAttempt
  /\ callerAttempt' = IF byTimer THEN callerAttempt ELSE FALSE
  /\ reconnecting' = IF byTimer THEN FALSE ELSE reconnecting
  /\ UNCHANGED <<serverUp, reconnectAttempts, reconnectTimeout, pendingTimers, clients>>
  /\ UNCHANGED <<graphVars, abrVars, hlsVars, poolVars, storeVars, cacheVars, portVars>>

\* ping() rejects: the catch of connect() sets connected = false, calls
\* _scheduleReconnect() and returns false; connect() does not throw, so the
\* timer callback takes its try branch and resets reconnecting
PingRejected(byTimer) ==
  /\ ~serverUp
  /\ IF byTimer THEN timerAttempt ELSE callerAttempt
  /\ connected' = FALSE
  /\ IF Schedules(reconnecting, reconnectTimeout, reconnectAttempts)
       THEN reconnectTimeout' = TRUE /\ pendingTimers' = pendingTimers + 1
       ELSE UNCHANGED <<reconnectTimeout, pendingTimers>>
  /\ timerAttempt' = IF byTimer THEN FALSE ELSE timerAttempt
  /\ callerAttempt' = IF byTimer THEN callerAttempt ELSE FALSE
  /\ reconnecting' = IF byTimer THEN FALSE ELSE reconnecting
  /\ UNCHANGED <<serverUp, reconnectAttempts, clients>>
  /\ UNCHANGED <<graphVars, abrVars, hlsVars, poolVars, storeVars, cacheVars, portVars>>

\* 'ready' of a client
ClientReady ==
  /\ clients > 0
  /\ serverUp
  /\ connected' = TRUE
  /\ reconnectAttempts' = 0
  /\ UNCHANGED <<serverUp, reconnecting, reconnectTimeout, pendingTimers,
                 timerAttempt, callerAttempt, clients>>
  /\ UNCHANGED <<graphVars, abrVars, hlsVars, poolVars, storeVars, cacheVars, portVars>>

\* 'error' of a client
ClientError ==
  /\ clients > 0
  /\ ~serverUp
  /\ connected
  /\ connected' = FALSE
  /\ UNCHANGED <<serverUp, reconnecting, reconnectAttempts, reconnectTimeout,
                 pendingTimers, timerAttempt, callerAttempt, clients>>
  /\ UNCHANGED <<graphVars, abrVars, hlsVars, poolVars, storeVars, cacheVars, portVars>>

\* 'close' of a client: connected = false, _scheduleReconnect(). When the
\* client's retryStrategy grants a retry, the client emits 'reconnecting'
\* right after 'close': ++reconnectAttempts, reconnecting = true
ClientClose(retry) ==
  /\ clients > 0
  /\ ~serverUp
  /\ retry => /\ reconnectAttempts < maxClientRetries * clients
              /\ reconnectAttempts < AttemptsCap
  /\ connected' = FALSE
  /\ IF Schedules(reconnecting, reconnectTimeout, reconnectAttempts)
       THEN reconnectTimeout' = TRUE /\ pendingTimers' = pendingTimers + 1
       ELSE UNCHANGED <<reconnectTimeout, pendingTimers>>
  /\ reconnectAttempts' = IF retry THEN reconnectAttempts + 1 ELSE reconnectAttempts
  /\ reconnecting' = (retry \/ reconnecting)
  /\ UNCHANGED <<serverUp, timerAttempt, callerAttempt, clients>>
  /\ UNCHANGED <<graphVars, abrVars, hlsVars, poolVars, storeVars, cacheVars, portVars>>

\* The cache server becomes unreachable or reachable
ServerChanges ==
  /\ serverUp' = ~serverUp
  /\ UNCHANGED <<connected, reconnecting, reconnectAttempts, reconnectTimeout,
                 pendingTimers, timerAttempt, callerAttempt, clients>>
  /\ UNCHANGED <<graphVars, abrVars, hlsVars, poolVars, storeVars, cacheVars, portVars>>

ClientNext ==
  \/ ConnectCalled \/ ReconnectTimerFires
  \/ \E byTimer \in BOOLEAN : PingResolved(byTimer)
  \/ \E byTimer \in BOOLEAN : PingRejected(byTimer)
  \/ ClientReady \/ ClientError
  \/ \E retry \in BOOLEAN : ClientClose(retry)
  \/ ServerChanges

----------------------------------------------------------------------------
(* The RTP ports of converter.js: allocateRtpPort, releaseRtpPort and the
   encoders that listen on the ports *)

HlsProducerIds == {"v1", "v2", "v3"}
RtpPorts == {10000, 10002}

\* reg: "new" (never added), "registered" (in producers, rtpInfo set) or
\* "removed"; port: rtpInfo.rtpPort, also the rtpPort of the encoder's close
\* handler; enc: "none", "running", "killed" (signalled by stopFFmpeg) or
\* "relaunch" (the relaunch timer is armed); removing: removeProducer awaits
\* cleanupDirectory
NewHlsProducer == [reg |-> "new", port |-> 0, enc |-> "none", removing |-> FALSE]

PortInit ==
  /\ usedPorts = {}
  /\ hlsProducers = [p \in HlsProducerIds |-> NewHlsProducer]

\* The ports allocateRtpPort() may return: a random even port of the range
\* that is not in usedPorts, or after 100 attempts the lowest one
FreePorts == RtpPorts \ usedPorts

\* releaseRtpPort(port) as the close handler and removeProducer call it:
\* only when producers has the producer and its rtpInfo is set
Released(p) ==
  IF hlsProducers[p].reg = "registered" THEN {hlsProducers[p].port} ELSE {}

\* addProducer(roomId, producer) for a video producer, with
\* setupRtpTransport and startFFmpeg
PortAddProducer(p, port) ==
  /\ hlsProducers[p].reg = "new"
  /\ port \in FreePorts
  /\ usedPorts' = usedPorts \cup {port}
  /\ hlsProducers' = [hlsProducers EXCEPT ![p] =
       [reg |-> "registered", port |-> port, enc |-> "running", removing |-> FALSE]]
  /\ UNCHANGED <<graphVars, abrVars, hlsVars, poolVars, storeVars, cacheVars, clientVars>>

\* The 'close' handler of an encoder: with a code other than 0 and null the
\* relaunch on the same rtpPort is scheduled; in both cases the process is
\* forgotten and the port released
EncoderClosed(p, clean) ==
  /\ hlsProducers[p].enc \in {"running", "killed"}
  /\ hlsProducers' = [hlsProducers EXCEPT ![p].enc = IF clean THEN "none" ELSE "relaunch"]
  /\ usedPorts' = usedPorts \ Released(p)
  /\ UNCHANGED <<graphVars, abrVars, hlsVars, poolVars, storeVars, cacheVars, clientVars>>

\* The relaunch timer fires: startFFmpeg(rtpPort, outputDir, producerId)
EncoderRelaunched(p) ==
  /\ hlsProducers[p].enc = "relaunch"
  /\ hlsProducers' = [hlsProducers EXCEPT ![p].enc = "running"]
  /\ UNCHANGED usedPorts
  /\ UNCHANGED <<graphVars, abrVars, hlsVars, poolVars, storeVars, cacheVars, clientVars>>

\* removeProducer(producerId) up to the await of cleanupDirectory:
\* stopFFmpeg signals the process that ffmpegProcesses holds
RemoveProducerCalled(p) ==
  /\ hlsProducers[p].reg = "registered"
  /\ ~hlsProducers[p].removing
  /\ hlsProducers' = [hlsProducers EXCEPT ![p].removing = TRUE,
                        ![p].enc = IF @ = "running" THEN "killed" ELSE @]
  /\ UNCHANGED usedPorts
  /\ UNCHANGED <<graphVars, abrVars, hlsVars, poolVars, storeVars, cacheVars, clientVars>>

\* removeProducer after the await: releaseRtpPort, producers.delete
RemoveProducerDone(p) ==
  /\ hlsProducers[p].removing
  /\ usedPorts' = usedPorts \ Released(p)
  /\ hlsProducers' = [hlsProducers EXCEPT ![p].removing = FALSE, ![p].reg = "removed"]
  /\ UNCHANGED <<graphVars, abrVars, hlsVars, poolVars, storeVars, cacheVars, clientVars>>

PortNext ==
  \/ \E p \in HlsProducerIds, port \in RtpPorts : PortAddProducer(p, port)
  \/ \E p \in HlsProducerIds, clean \in BOOLEAN : EncoderClosed(p, clean)
  \/ \E p \in HlsProducerIds : EncoderRelaunched(p)
  \/ \E p \in HlsProducerIds : RemoveProducerCalled(p)
  \/ \E p \in HlsProducerIds : RemoveProducerDone(p)

SideInit == CacheInit /\ ClientInit /\ PortInit

\* The media graph of one server (rooms, peers, transports, producers,
\* consumers)
Init == GraphInit /\ AbrInit /\ HlsInit /\ hls = "HlsConverterService"
        /\ PoolInit /\ pool = "MediasoupServer" /\ StoreInit /\ SideInit
Next == GraphNext
Spec == Init /\ [][Next]_vars

\* The adaptive-bitrate monitor of one MediasoupServer transport
InitAbr == GraphInit /\ impl = "MediasoupServer" /\ AbrInit /\ HlsInit
           /\ hls = "HlsConverterService" /\ PoolInit /\ pool = "MediasoupServer" /\ StoreInit
           /\ SideInit
SpecAbr == InitAbr /\ [][AbrNext]_vars

\* The HLS supervisors
InitHls == GraphInit /\ impl = "RoomManager" /\ AbrInit /\ HlsInit
           /\ PoolInit /\ pool = "MediasoupServer" /\ StoreInit /\ SideInit
SpecHls == InitHls /\ [][HlsNext]_vars

\* The worker pools
InitPool == GraphInit /\ impl = "RoomManager" /\ AbrInit /\ HlsInit
            /\ hls = "HlsConverterService" /\ PoolInit /\ StoreInit
            /\ SideInit
SpecPool == InitPool /\ [][PoolNext]_vars

\* The upload loop of a Conversion whose start has returned: the record is
\* registered and its encoder runs
InitUpload ==
  /\ GraphInit /\ impl = "RoomManager" /\ AbrInit
  /\ PoolInit /\ pool = "MediasoupServer"
  /\ StoreIdle
  /\ remote \in [ObjectKeys -> [state : {"absent"}, page : {1, 2}]]
  /\ hls \in {"HlsConverterService", "converter"}
  /\ conversions = 1
  /\ convObjs = <<IF hls = "converter"
                     THEN [NewConversion EXCEPT !.rtpInfo = TRUE]
                     ELSE [NewConversion EXCEPT !.transport = 1, !.consumer = TRUE,
                                                !.process = 1]>>
  /\ encoders = <<[conv |-> 1, state |-> "running", code |-> "none",
                    young |-> FALSE, early |-> FALSE,
                    watch |-> IF hls = "converter" THEN "none" ELSE "crash",
                    waiter |-> "none",
                    call |-> IF hls = "converter" THEN 0 ELSE 1,
                    by |-> "start", afterStop |-> FALSE]>>
  /\ ffmpegProcesses = IF hls = "converter" THEN 1 ELSE 0
  /\ timers = {}
  /\ plainTransports = IF hls = "converter" THEN 0 ELSE 1
  /\ hlsCalls = [c \in HlsCallIds |-> IdleHlsCall]
  /\ firstStart = [some |-> TRUE, result |-> "ok", value |-> 1]
  /\ sourceClosed = FALSE
  /\ stopMissed = FALSE
  /\ SideInit
SpecUpload == InitUpload /\ [][UploadNext]_vars

\* The socket server's createRoom and its Redis entries
InitCache == Init /\ impl = "RoomManager"
SpecCache == InitCache /\ [][CacheNext]_vars

\* The cache client's connection
InitClient == Init /\ impl = "RoomManager"
SpecClient == InitClient /\ [][ClientNext]_vars

\* The RTP port allocator of converter.js
InitPorts == Init /\ impl = "RoomManager"
SpecPorts == InitPorts /\ [][PortNext]_vars

----------------------------------------------------------------------------
(* Properties *)

\* C1: concurrent getOrCreate(roomId) calls for an id not yet registered
\* create exactly one router for that id: no two open routers ever exist for
\* the same room id.
C1_ExactlyOneRouter ==
  \A a \in 1..Len(engRouters), b \in 1..Len(engRouters) :
    (a # b /\ engRouters[a].room = engRouters[b].room)
      => (engRouters[a].closed \/ engRouters[b].closed)

\* C2: a createWebRtcTransport that runs concurrently with the closePeer that
\* removes the last peer of the room never fails because the room vanished
\* under it: every finished MediasoupServer.createWebRtcTransport succeeded.
C2_AddNeverLosesRoom ==
  \A c \in CallIds :
    (impl = "MediasoupServer" /\ calls[c].pc = "done"
       /\ calls[c].op = "createWebRtcTransport")
      => calls[c].result = "ok"

\* C3: a room that had peers and has lost all of them through closePeer is
\* absent from the registry and its router is closed.
C3_EmptyRoomIsClosed ==
  \A ro \in 1..Len(roomObjs) :
    ((\E i \in 1..Len(peerObjs) : peerObjs[i].roomObj = ro)
       /\ RoomPeers(roomObjs, ro) = {})
      => (rooms[engRouters[ro].room] # ro /\ engRouters[ro].closed)

\* The consumers held by the collections of room object i / peer object i
RoomConsumers(ros, i) == IF i \in 1..Len(roomObjs) THEN ros[i].consumers ELSE {}
PeerConsumers(pos, i) == IF i \in 1..Len(peerObjs) THEN pos[i].consumers ELSE {}

\* C4: in the step in which canConsume reports a createConsumer request
\* incompatible, the request finishes with IncompatibleCapabilities, no
\* consumer is created on the engine and no per-peer, per-room or global
\* collection of consumers changes.
C4_IncompatibleLeavesGraph ==
  [][\A c \in CallIds :
       (calls'[c].canConsume = "false" /\ calls[c].canConsume # "false")
         => /\ calls'[c].pc = "done"
            /\ calls'[c].result = "IncompatibleCapabilities"
            /\ engConsumers' = engConsumers
            /\ consumers' = consumers
            /\ \A i \in 1..Len(roomObjs') :
                 roomObjs'[i].consumers = RoomConsumers(roomObjs, i)
            /\ \A i \in 1..Len(peerObjs') :
                 peerObjs'[i].consumers = PeerConsumers(peerObjs, i)]_vars

\* A createConsumer request has just been refused for incompatible
\* capabilities while the producer it names exists
C4_Witness ==
  \E c \in CallIds :
    /\ calls[c].pc = "done"
    /\ calls[c].op = "createConsumer"
    /\ calls[c].canConsume = "false"
    /\ calls[c].result = "IncompatibleCapabilities"
    /\ engProducers # <<>>

\* C5: every bitrate the adaptive bitrate loop passes to
\* setMaxOutgoingBitrate lies in [minimumAvailableOutgoingBitrate,
\* maximumAvailableOutgoingBitrate].
C5_AppliedBitrateInRange ==
  \A i \in CycleIds :
    cycles[i].pc = "setBitrate"
      => cycles[i].newBitrate \in
           minimumAvailableOutgoingBitrate..maximumAvailableOutgoingBitrate

\* A decrease is being applied whose unclamped value lies below the minimum
C5_Witness ==
  \E i \in CycleIds :
    /\ cycles[i].pc = "setBitrate"
    /\ cycles[i].newBitrate = minimumAvailableOutgoingBitrate
    /\ FloorDecrease(maxOutgoingBitrate) < minimumAvailableOutgoingBitrate

\* C6: at most one live encoder process exists for the (room, producer) pair
\* in every reachable state.
C6_OneLiveEncoder ==
  Cardinality({e \in 1..Len(encoders) : encoders[e].state = "running"}) <= 1

\* C7: a start call issued after an earlier start call has finished (without
\* EncoderFailedToStart) and with no stop in between returns the Conversion
\* the first call returned, spawns no encoder and allocates no side-channel
\* transport or consumer.
C7_SecondStartIdempotent ==
  \A c \in HlsCallIds :
    (hlsCalls[c].pc = "done" /\ hlsCalls[c].after
       /\ hlsCalls[c].first.result # "EncoderFailedToStart")
      => /\ hlsCalls[c].result = "ok"
         /\ hlsCalls[c].value = hlsCalls[c].first.value
         /\ hlsCalls[c].spawned = 0
         /\ hlsCalls[c].allocated = 0

\* The encoder launched last for Conversion cv (0: none)
LastEncoder(cv) ==
  LET S == {e \in 1..Len(encoders) : encoders[e].conv = cv}
  IN IF S = {} THEN 0 ELSE CHOOSE e \in S : \A d \in S : d <= e

\* C8: when the latest encoder of a registered Conversion that has not been
\* stopped has exited with code 1, a relaunch is on its way: the restart
\* backoff timer of that Conversion is armed.
C8_CrashArmsRelaunch ==
  \A cv \in 1..Len(convObjs) :
    (conversions = cv /\ ~convObjs[cv].stopped /\ LastEncoder(cv) # 0
       /\ encoders[LastEncoder(cv)].state = "exited"
       /\ encoders[LastEncoder(cv)].code = "1")
      => \E t \in timers : t.kind = "restart" /\ t.conv = cv

\* C9: no restart timer launches an encoder for a Conversion on which stop
\* has been called.
C9_NoRelaunchAfterStop ==
  \A e \in 1..Len(encoders) :
    encoders[e].by = "restart" => ~encoders[e].afterStop

\* C10: when the encoder a start call launched exits by itself within the
\* grace period, its Conversion is not registered for the pair and no
\* restart timer is armed for that exit.
C10_EarlyExitFailsStart ==
  \A e \in 1..Len(encoders) :
    (encoders[e].early /\ encoders[e].by = "start" /\ encoders[e].code # "null")
      => /\ conversions # encoders[e].conv
         /\ \A t \in timers : ~(t.kind = "restart" /\ t.src = e)

\* C11: a start call that launched an encoder reports success only when the
\* early-exit grace period of that encoder has passed with the encoder alive.
C11_SuccessAfterGrace ==
  \A c \in HlsCallIds :
    (hlsCalls[c].pc = "done" /\ hlsCalls[c].result = "ok"
       /\ hlsCalls[c].spawned > 0)
      => \A e \in 1..Len(encoders) :
           (encoders[e].conv = hlsCalls[c].conv /\ encoders[e].by = "start")
             => (~encoders[e].young /\ ~encoders[e].early)

\* the Conversion record i is gone: not registered, its encoders terminated,
\* its side-channel transport and consumer closed
Destroyed(i) ==
  /\ conversions # i
  /\ convObjs[i].transport = 0
  /\ ~convObjs[i].consumer
  /\ \A e \in 1..Len(encoders) :
       encoders[e].conv = i => encoders[e].state # "running"

\* C12: once the source producer has closed or an explicit stop has finished,
\* and no start call is in flight, no Conversion record remains, its encoder
\* is terminated and its side-channel transport and consumer are closed.
C12_ConversionDestroyed ==
  (\A c \in HlsCallIds : hlsCalls[c].pc = "idle")
    => \A i \in 1..Len(convObjs) :
         ((sourceClosed \/ convObjs[i].stopped) /\ ~convObjs[i].removing)
           => Destroyed(i)

C14_FailureAddsNothing ==
  [][\A c \in CallIds :
       (/\ calls[c].pc \notin {"idle", "done"}
        /\ calls'[c].pc = "done"
        /\ calls'[c].result # "ok"
        /\ calls'[c].op \in {"createWebRtcTransport", "createProducer",
                              "createConsumer"})
         => UNCHANGED <<rooms, roomObjs, peerObjs, peers, producers, consumers>>]_vars

\* the peer objects reachable from this.peers or from a registered room
LivePeerObjs ==
  {i \in 1..Len(peerObjs) :
     \/ \E p \in PeerIds : peers[p] = i
     \/ \E r \in RoomIds, p \in PeerIds :
          rooms[r] # 0 /\ roomObjs[rooms[r]].peers[p] = i}

\* the room objects held by this.rooms
LiveRoomObjs == {rooms[r] : r \in RoomIds} \ {0}

\* the ids held by a collection of some live peer, of some registered room or
\* of the server
HeldTransports ==
  UNION ({peerObjs[i].transports : i \in LivePeerObjs}
           \cup {roomObjs[j].webRtcTransports : j \in LiveRoomObjs})

HeldProducers ==
  producers \cup UNION ({peerObjs[i].producers : i \in LivePeerObjs}
                          \cup {roomObjs[j].producers : j \in LiveRoomObjs})

HeldConsumers ==
  consumers \cup UNION ({peerObjs[i].consumers : i \in LivePeerObjs}
                          \cup {roomObjs[j].consumers : j \in LiveRoomObjs})

\* C15: the id of a closed transport, producer or consumer is in no
\* collection of a peer, of a room or of the server.
C15_ClosedIdsRemoved ==
  /\ \A t \in HeldTransports : ~engTransports[t].closed
  /\ \A q \in HeldProducers : ~engProducers[q].closed
  /\ \A k \in HeldConsumers : ~engConsumers[k].closed

\* C16: once the transport or the source producer of a consumer has closed,
\* the consumer is closed and no collection of a peer, of a room or of the
\* server contains it.
C16_ConsumerDoesNotOutlive ==
  \A k \in 1..Len(engConsumers) :
    (\/ engTransports[engConsumers[k].transport].closed
     \/ engProducers[engConsumers[k].producer].closed)
      => (engConsumers[k].closed /\ k \notin HeldConsumers)

\* peer object po of room r under peer id p has been closed in the next state
PeerClosed(r, p, po) ==
  /\ \A k \in peerObjs[po].consumers : engConsumers'[k].closed
  /\ \A q \in peerObjs[po].producers : engProducers'[q].closed
  /\ \A t \in peerObjs[po].transports : engTransports'[t].closed
  /\ rooms[r] # 0 =>
       /\ roomObjs'[rooms[r]].peers[p] = 0
       /\ RoomPeers(roomObjs', rooms[r]) = {}
            => (rooms'[r] = 0 /\ engRouters'[rooms[r]].closed)

\* C17: a closePeer step leaves the consumers, producers and transports of
\* the peer closed and the peer out of its room, and when the room has no
\* peer left the same step closes the router and unregisters the room.
C17_ClosePeerCascade ==
  [][\A r \in RoomIds, p \in PeerIds :
       /\ MsClosePeer(r, p) => PeerClosed(r, p, GetPeer(r, p))
       /\ RsClosePeer(p, r) => PeerClosed(r, p, peers[p])]_vars

\* the room r held as room object ro has been closed in the next state: its
\* router and everything created on it are closed and the id is unregistered
RoomClosed(r, ro) ==
  /\ engRouters'[ro].closed
  /\ \A t \in 1..Len(engTransports) :
       engTransports[t].router = ro => engTransports'[t].closed
  /\ \A q \in 1..Len(engProducers) :
       engTransports[engProducers[q].transport].router = ro
         => engProducers'[q].closed
  /\ \A k \in 1..Len(engConsumers) :
       engTransports[engConsumers[k].transport].router = ro
         => engConsumers'[k].closed
  /\ \A p \in RoomPeers(roomObjs, ro) : peers'[p] = 0
  /\ rooms'[r] = 0

\* C18: closing a registered room closes its router and every transport,
\* producer and consumer of its peers and unregisters the room; closing an
\* unregistered id changes nothing.
C18_CloseRoom ==
  [][/\ \A r \in RoomIds : RmCloseRoom(r) => RoomClosed(r, rooms[r])
     /\ \A c \in CallIds :
          RsHlsStopped(c) => RoomClosed(calls[c].room, calls[c].roomObj)
     /\ \A c \in CallIds, r \in RoomIds :
          (RsCloseRoom(c, r) /\ rooms[r] = 0)
            => UNCHANGED <<rooms, roomObjs, peerObjs, peers, producers, consumers,
                           engRouters, engTransports, engProducers, engConsumers>>]_vars

\* C19: next() on an empty pool fails with NoWorkersAvailable, and on any
\* other pool, whatever workers have died or been replaced, it returns a
\* member of the pool that is alive.
C19_NextReturnsLiveMember ==
  [][PoolGetNextWorker
       => IF Len(workers) = 0
            THEN lastWorker'.kind = "NoWorkersAvailable"
            ELSE /\ lastWorker'.kind = "worker"
                 /\ lastWorker'.id \in PoolMembers \ deadWorkers]_vars

\* s is the pool read in order from some position, wrapping at the end
IsRotation(s, w) ==
  /\ Len(s) = Len(w)
  /\ \E k \in 0..(Len(w) - 1) :
       \A i \in 1..Len(w) : s[i] = w[((k + i - 1) % Len(w)) + 1]

\* C20: while the pool is unchanged, n consecutive calls of next() on a pool
\* of n workers return every worker once, in the order of the pool.
C20_RoundRobin ==
  (Len(workers) > 0 /\ Len(served) = Len(workers)) => IsRotation(served, workers)

\* C21: in an open pool that replaces its workers, once the replacement of
\* every dead worker has been created (none failed, none pending) the pool
\* holds exactly n workers, all alive, one created for each death.
C21_ReplacedAfterDeath ==
  (/\ pool # "RoomService"
   /\ poolState = "running"
   /\ createFailures = 0
   /\ pendingWorkers = {})
    => /\ Len(workers) = NumWorkers
       /\ Cardinality(PoolMembers) = NumWorkers
       /\ PoolMembers \cap (deadWorkers \cup {0}) = {}
       /\ createdWorkers = NumWorkers + Cardinality(deadWorkers)

C21_Witness ==
  /\ pool # "RoomService"
  /\ poolState = "running"
  /\ createFailures = 0
  /\ pendingWorkers = {}
  /\ Cardinality(deadWorkers) = 2

\* C22: a failed creation of a replacement worker is retried: while the pool
\* is open and holds fewer than n live workers, a replacement is pending.
C22_FailedReplacementRetried ==
  (/\ pool \in {"MediasoupServer", "RoomManager"}
   /\ poolState = "running"
   /\ createFailures > 0)
    => \/ pendingWorkers # {}
       \/ Cardinality(PoolMembers \ (deadWorkers \cup {0})) = NumWorkers

\* C23: close() leaves every worker of the pool closed, and a next() call on
\* a closed pool fails: it returns neither a worker nor undefined.
C23_ClosedPoolRefusesNext ==
  [][/\ PoolClose => PoolMembers \ {0} \subseteq deadWorkers'
     /\ (PoolGetNextWorker /\ poolState = "closed")
          => lastWorker'.kind \in {"PoolClosed", "NoWorkersAvailable"}]_vars

\* C24: a step that reads a file and sends its upload never takes a file that
\* was modified less than the debounce window ago.
C24_FreshFileNotUploaded ==
  [][\A f \in FileNames :
       (UploadStart(f) /\ f \in pass'.sending) => ~localFiles[f].fresh]_vars

\* C25: a failed upload of one file aborts neither the pass nor the
\* Conversion: the pass goes on with its remaining files, the Conversion stays
\* registered with its encoder running, the next pass stays scheduled as long
\* as the Conversion is not stopped, and the next pass lists the failed file
\* again and sends it once it is stable.
C25_UploadFailureContained ==
  [][
      /\ \A f \in FileNames : UploadDone(f, FALSE) =>
           /\ pass'.pc = "files"
           /\ pass'.todo = pass.todo
           /\ pass'.sending = pass.sending \ {f}
           /\ f \in failed'
           /\ UNCHANGED <<conversions, convObjs, encoders, ffmpegProcesses>>
           /\ UNCHANGED localFiles
      /\ (failed' # {} /\ ~convObjs'[1].stopped) =>
           (pass'.pc # "idle" \/ passTimer')
      /\ DirListed => \A f \in failed : (localFiles[f].present => f \in pass'.todo)
      /\ \A f \in failed :
           (UploadStart(f) /\ ~localFiles[f].fresh) => f \in pass'.sending
    ]_vars

\* a file whose upload failed in an earlier pass is being uploaded again
C25_Witness == \E f \in failed : pass.pc = "files" /\ f \in pass.sending

\* C26: an expiry sweep removes exactly the expired objects: when the listing
\* of a sweep returns, every object older than the retention window is
\* scheduled for deletion, and no object is deleted while it is younger.
C26_SweepRemovesExactlyExpired ==
  [][
      /\ SweepListed =>
           \A k \in ObjectKeys : (remote[k].state = "expired" => k \in sweep'.expired)
      /\ \A k \in ObjectKeys : SweepDelete(k) => remote[k].state = "expired"
    ]_vars

\* C27: two successive bitrate changes of the loop are at least
\* adjustmentThrottleMs apart: whenever setMaxOutgoingBitrate takes effect,
\* the time since lastAdjustmentTime (which is no later than the previous
\* change) is at least adjustmentThrottleMs.
C27_ChangesThrottled ==
  [][\A i \in CycleIds :
       (AbrApplied(i) /\ ~abrClosed) => sinceAdjustment >= adjustmentThrottleMs]_vars

\* C28: a cycle that passes the throttle and finds congestion calls
\* setMaxOutgoingBitrate(max(minBitrate, floor(currentBitrate * decreaseFactor)))
\* in that cycle; when the call takes effect the stability counter is zero,
\* the bitrate has not increased, and it has strictly decreased unless it was
\* already at minBitrate.
C28_CongestionDecreases ==
  [][\A i \in CycleIds :
       LET congested == Congested(cycles[i].rtt, cycles[i].lastRtt)
       IN /\ (AbrBitrateRead(i) /\ ~abrClosed /\ congested) =>
                /\ cycles'[i].pc = "setBitrate"
                /\ cycles'[i].newBitrate =
                     Max(minimumAvailableOutgoingBitrate,
                         (maxOutgoingBitrate * decreaseFactorPercent) \div 100)
          /\ (AbrApplied(i) /\ ~abrClosed /\ congested) =>
                /\ stableNetworkCount' = 0
                /\ maxOutgoingBitrate' <= maxOutgoingBitrate
                /\ maxOutgoingBitrate > minimumAvailableOutgoingBitrate
                     => maxOutgoingBitrate' < maxOutgoingBitrate]_vars

\* C29: the loop raises the bitrate only in a stable cycle that completes a
\* run of stableNetworkThreshold stable cycles evaluated in a row, with no
\* congestion or ambiguous cycle evaluated inside the run; a congestion cycle
\* leaves the counter at zero when it completes, and an ambiguous cycle resets
\* it at once and neither sets nor changes the bitrate.
C29_RaiseOnlyAfterStableRun ==
  [][\A i \in CycleIds :
       LET congested == Congested(cycles[i].rtt, cycles[i].lastRtt)
           stable == ~congested /\ Stable(cycles[i].rtt)
           evaluated == AbrBitrateRead(i) /\ ~abrClosed
           raised == cycles'[i].pc = "setBitrate" /\ ~congested
       IN /\ (evaluated /\ raised) =>
                /\ stable
                /\ stableRun + 1 >= stableNetworkThreshold
          /\ (evaluated /\ ~congested /\ ~stable) =>
                /\ stableNetworkCount' = 0
                /\ cycles'[i].pc = "idle"
                /\ UNCHANGED maxOutgoingBitrate
          /\ (AbrApplied(i) /\ ~abrClosed) => stableNetworkCount' = 0]_vars

C33_AdjustmentsSerialized ==
  Cardinality({i \in CycleIds : cycles[i].pc = "setBitrate"}) <= 1

\* C37: every cycle on the open transport that got a sample replaces the
\* stored sample by it, whichever way the cycle ends (first sample, missing
\* RTT, throttle, evaluation or adjustment), so that the next cycle compares
\* with the RTT of the cycle just before it.
C37_StoredSampleReplaced ==
  [][\A i \in CycleIds :
       /\ \A rtt \in RttSamples :
            (AbrStats(i, rtt) /\ ~abrClosed /\ cycles'[i].pc = "idle") =>
               lastStats' = [present |-> TRUE, rtt |-> rtt]
       /\ ((AbrBitrateRead(i) \/ AbrApplied(i)) /\ ~abrClosed
             /\ cycles'[i].pc = "idle") =>
               lastStats' = [present |-> TRUE, rtt |-> cycles[i].rtt]]_vars

\* C38: once the pool has been closed it holds no worker, and it never gains
\* one: a replacement that was being created at close is not added.
C38_ClosedPoolStaysEmpty ==
  poolState = "closed" => PoolMembers \ {0} = {}

\* C39: the death of a worker does not terminate the process.
C39_DeathNotFatal ==
  deadWorkers # {} => poolState # "exited"

\* C36: when a start call that made a Conversion record fails, nothing of the
\* attempt survives: the record is not registered, no encoder of it runs, and
\* its side-channel transport and consumer are closed.
C36_FailedStartLeavesNothing ==
  \A c \in HlsCallIds :
    (hlsCalls[c].pc = "done" /\ hlsCalls[c].result # "ok" /\ hlsCalls[c].conv # 0)
      => /\ Destroyed(hlsCalls[c].conv)
         /\ ~convObjs[hlsCalls[c].conv].rtpInfo

\* C34: stopping a Conversion cancels its upload loop: the loop starts no pass
\* once its Conversion has been stopped, and none while the loop of a later
\* Conversion of the same pair is alive.
C34_StopCancelsUploadLoop ==
  [][(PassStart /\ (convObjs[1].stopped \/ secondLoop # "none"))
       => pass'.pc = "idle"]_vars

\* C31: the result of createRoom is determined by rooms alone. A call that
\* returns a value returns a room with its router, either the one that rooms
\* holds for the id or the one the call created and registered, whatever
\* Redis holds for the id; and a Redis miss for an id that rooms holds
\* returns that room instead of creating one.
C31_RegistryDecides ==
  [][
    \A c \in SockCallIds :
      /\ (sockCalls[c].pc # "done" /\ sockCalls'[c].pc = "done"
            /\ sockCalls'[c].result # "cacheError")
           => (/\ sockCalls'[c].result = "room"
               /\ sockCalls'[c].value # 0
               /\ (sockCalls[c].pc = "get"
                     => sockCalls'[c].value = sockRooms[sockCalls[c].room]))
      /\ (CacheGetReturns(c, TRUE) /\ sockCalls[c].room \notin cacheRooms
            /\ sockRooms[sockCalls[c].room] # 0)
           => sockCalls'[c].pc = "done"
  ]_vars

\* C32: a failure of a Redis command never fails the operation: no call of
\* createRoom ends by throwing the rejection of its get or set.
C32_CacheFailureNotFatal ==
  \A c \in SockCallIds :
    sockCalls[c].pc = "done" => sockCalls[c].result # "cacheError"

\* C35: no RTP port is held by two Conversions at once. The port of every
\* registered producer is in usedPorts until the producer is removed, also
\* between a crash of its encoder and the relaunch, and two registered
\* producers never have the same port.
C35_PortHeldOnce ==
  /\ \A p \in HlsProducerIds :
       hlsProducers[p].reg = "registered" => hlsProducers[p].port \in usedPorts
  /\ \A p, q \in HlsProducerIds :
       (p # q /\ hlsProducers[p].reg = "registered"
              /\ hlsProducers[q].reg = "registered")
         => hlsProducers[p].port # hlsProducers[q].port

\* C40: while the server is unreachable the client keeps reconnecting. After
\* a failed connect attempt with fewer than maxReconnectAttempts attempts
\* made, a reconnect timer is pending or another attempt is in progress;
\* never more than one timer is pending; and reconnectAttempts never
\* exceeds maxReconnectAttempts.
C40_KeepsReconnecting ==
  [][
    /\ \A byTimer \in BOOLEAN :
         (PingRejected(byTimer) /\ reconnectAttempts' < maxReconnectAttempts)
           => (pendingTimers' = 1 \/ timerAttempt' \/ callerAttempt')
    /\ pendingTimers' <= 1
    /\ reconnectAttempts' <= maxReconnectAttempts
  ]_vars

====
